---- MODULE Spec2Model ----
(***************************************************************************)
(* A model of LAMMPS' create_atoms command (src/src/create_atoms.cpp).     *)
(*                                                                         *)
(* Every rank (MPI process) runs CreateAtoms::command.  The model keeps    *)
(* one program counter per rank and one action per stretch of code between *)
(* two blocking collectives (MPI_Allreduce, MPI_Scan).                     *)
(*                                                                         *)
(* Lengths are integers.  EPSILON is 1.0e-6 in the source, so one length   *)
(* unit of the simulation is UnitLen = 1/EPSILON model units, which makes  *)
(* prd * EPSILON exact.  The box is orthogonal (triclinic == 0): the       *)
(* lamda-coordinate branches of the source are outside the model.          *)
(***************************************************************************)
EXTENDS Integers, Sequences, FiniteSets, TLC

VARIABLES
  \* ---- inputs of the command, fixed by Init ----
  cmd,              \* the parsed arguments: style, mode, nrandom, maxtry, ...
  domain,           \* Domain: boxlo, boxhi, periodicity, sublo/subhi per rank
  comm,             \* Comm: nprocs, layout, procgrid, myloc per rank
  lattice,          \* Lattice: nbasis, basis; per rank, the number of sites
                    \* the rank owns in a part of its sub-box that the loop
                    \* bounds of the model leave out (bulk)
  region,           \* Region given to the command (id = "NULL" for nullptr)
  onemol,           \* Molecule template
  atom,             \* Atom settings: tag_enable, molecule_flag, molecular; the
                    \* width of bigint in this build and what an int becomes
                    \* when incremented past MAXSMALLINT; per rank, the count
                    \* of atoms held before the command that are not in peratom
  \* ---- state of each rank ----
  pc,               \* where the rank is in command()
  peratom,          \* the rank's per-atom arrays, atom->nlocal = Len
  nlocal_previous,  \* atom->nlocal when the command began
  sublo, subhi,     \* CreateAtoms::sublo, subhi
  ibox,             \* loop bounds ilo, ihi, jlo, jhi, klo, khi
  nlatt,            \* CreateAtoms::nlatt
  nlatt_overflow,   \* CreateAtoms::nlatt_overflow
  nsubset,          \* CreateAtoms::nsubset
  flag,             \* subset flags, one per counted lattice site
  rnd,              \* add_random's locals: i, ntry, success, ninsert, xone, ndraw
  natoms,           \* atom->natoms as the rank knows it
  maxmol,           \* command()'s maxmol
  moloffset,        \* command()'s moloffset, as first computed
  \* ---- the world ----
  sent,             \* per rank, the contributions it made to collectives
  stream,           \* the draws of the shared-seed generator, in order
  flagsel,          \* TRUE once select_subset has produced the flags
  \* ---- observations ----
  passes,           \* per rank, the loop_lattice passes run so far
  trylog,           \* per rank, the tries of add_random made so far
  events            \* per rank, warnings, errors and phase marks, in order

cfgvars == <<cmd, domain, comm, lattice, region, onemol, atom>>
latvars == <<ibox, nlatt, nlatt_overflow, nsubset, flag, flagsel, passes>>
ranvars == <<rnd, stream, trylog>>
molvars == <<natoms, maxmol, moloffset>>
vars == <<cmd, domain, comm, lattice, region, onemol, atom, pc, peratom,
          nlocal_previous, sublo, subhi, ibox, nlatt, nlatt_overflow, nsubset,
          flag, rnd, natoms, maxmol, moloffset, sent, stream, flagsel, passes, trylog,
          events>>

-----------------------------------------------------------------------------
(* Program constants                                                       *)

\* #define EPSILON 1.0e-6, held as its reciprocal: model units per length unit
UnitLen == 1000000
\* MAXSMALLINT, the largest 32-bit int
MAXSMALLINT == 2147483647
\* #define DEFAULT_MAXTRY 1000
DEFAULT_MAXTRY == 1000
\* "warm up the generator 30x"
WarmUp == 30

Axes == 1..3
Ranks == 1..comm.nprocs

Min(a, b) == IF a < b THEN a ELSE b
Max(a, b) == IF a > b THEN a ELSE b
SetMin(S) == CHOOSE v \in S : \A w \in S : v <= w
SetMax(S) == CHOOSE v \in S : \A w \in S : v >= w

\* static_cast<int>(n / d) for d > 0: C++ conversion truncates toward zero
TruncDiv(n, d) == IF n >= 0 THEN n \div d ELSE -((-n) \div d)

RECURSIVE SumSeq(_)
SumSeq(s) == IF s = <<>> THEN 0 ELSE Head(s) + SumSeq(Tail(s))

-----------------------------------------------------------------------------
(* Collectives.  A rank's k-th collective call matches every other rank's  *)
(* k-th call.  sent[r] is the list of r's contributions; a call returns    *)
(* once every rank it needs has made its k-th contribution.                *)

Post(r, kind, val) == [sent EXCEPT ![r] = Append(@, [kind |-> kind, val |-> val])]
Round(r) == Len(sent[r])
\* MPI_Allreduce can return on rank r
Reduced(r) == \A s \in Ranks : Len(sent[s]) >= Round(r)
Contribution(r, s) == sent[s][Round(r)].val
RECURSIVE SumOver(_, _)
SumOver(r, S) ==
  IF S = {} THEN 0
  ELSE LET s == CHOOSE t \in S : TRUE
       IN Contribution(r, s) + SumOver(r, S \ {s})
AllreduceSum(r) == SumOver(r, Ranks)
AllreduceMax(r) == SetMax({Contribution(r, s) : s \in Ranks})
\* MPI_Scan: inclusive prefix sum over ranks 1..r
ScanReady(r) == \A s \in 1..r : Len(sent[s]) >= Round(r)
ScanSum(r) == SumOver(r, 1..r)

Mark(r, e) == [events EXCEPT ![r] = Append(@, e)]

\* bigint is 64 bits wide, or 32 in a build with LAMMPS_SMALLSMALL.  The sum
\* of two bigint is kept in that width (two's complement).  Every count of
\* the model is below 2^31, so a 64-bit sum of them is exact.
AddBig(a, b) ==
  IF atom.bigbits = 32 /\ a >= 0 /\ b > MAXSMALLINT - a
  THEN (a - MAXSMALLINT - 1) + (b - MAXSMALLINT) - 1
  ELSE a + b
RECURSIVE BigSumOver(_, _)
BigSumOver(r, S) ==
  IF S = {} THEN 0
  ELSE LET s == SetMax(S)
       IN AddBig(BigSumOver(r, S \ {s}), Contribution(r, s))
\* MPI_Allreduce(..., MPI_LMP_BIGINT, MPI_SUM, world)
AllreduceBig(r) == BigSumOver(r, Ranks)

\* rank r exists and is at label l of command()
At(r, l) == r \in Ranks /\ pc[r] = l

-----------------------------------------------------------------------------
(* External collaborators, at their interface                              *)

\* Lattice::lattice2box for a cubic lattice of constant 1.0 at the origin.
\* A lattice coordinate is a cell index plus a basis offset of 0 or 1/2,
\* given here as the pair (cell, halves).
lattice2box(cell, halves) == cell * UnitLen + halves * (UnitLen \div 2)

\* Domain::minimum_image on axis d of an orthogonal box
minimum_image(d, del) ==
  LET prd == domain.boxhi[d] - domain.boxlo[d]
      mag == IF del < 0 THEN -del ELSE del
  IN IF domain.periodicity[d] /\ 2 * mag > prd
     THEN (IF del < 0 THEN del + prd ELSE del - prd)
     ELSE del

\* Domain::remap: a position is wrapped into the box on periodic axes
remap(x) ==
  [d \in Axes |->
     IF domain.periodicity[d]
     THEN domain.boxlo[d] + ((x[d] - domain.boxlo[d]) % (domain.boxhi[d] - domain.boxlo[d]))
     ELSE x[d]]

\* Region::match for a block region: closed bounds on every axis
RegionMatch(x) ==
  \A d \in Axes : x[d] >= region.lo[d] /\ x[d] <= region.hi[d]

\* Variable::compute_equal on the user's expression, after x, y, z are bound.
\* Two expression shapes: a 0/1 comparison and a signed difference.
compute_equal(x) ==
  IF cmd.vexpr = "step" THEN (IF x[cmd.vaxis] >= cmd.vcut THEN 1 ELSE 0)
  ELSE x[cmd.vaxis] - cmd.vcut

\* AtomVec::create_atom: append one atom; ids are 0 until the caller sets them
NewAtom(type, x) ==
  [x |-> x, type |-> type, tag |-> 0, molecule |-> 0, molatom |-> 0,
   bond_atom |-> <<>>, angle_atom |-> <<>>, special |-> <<>>]
create_atom(atoms, type, x) == Append(atoms, NewAtom(type, x))

-----------------------------------------------------------------------------
(* CreateAtoms::vartest                                                    *)

vartest(x) == IF compute_equal(x) = 0 THEN 0 ELSE 1

-----------------------------------------------------------------------------
(* CreateAtoms::add_molecule.  rot is the rotation drawn from ranmol (or   *)
(* set by the user): one of the axis permutations with signs, which keep   *)
(* integer offsets integer.                                                *)

Rotate(rot, dx) == [d \in Axes |-> rot.sign[d] * dx[rot.perm[d]]]

\* a stamp that lays the template's atoms down last member first
StampFromReversed(atoms, center, rot, m) ==
  atoms \o [k \in 1..onemol.natoms |->
             LET t == onemol.natoms + 1 - k
             IN [NewAtom(cmd.ntype + onemol.type[t],
                         [d \in Axes |-> Rotate(rot, onemol.dx[t])[d] + center[d]])
                   EXCEPT !.bond_atom = onemol.bond_atom[t],
                          !.angle_atom = onemol.angle_atom[t],
                          !.special = onemol.special[t]]]

RECURSIVE StampFrom(_, _, _, _)
StampFrom(atoms, center, rot, m) ==
  IF m > onemol.natoms THEN atoms
  ELSE LET xnew == [d \in Axes |-> Rotate(rot, onemol.dx[m])[d] + center[d]]
           a == [NewAtom(cmd.ntype + onemol.type[m], xnew) EXCEPT
                   \* Atom::add_molecule_atom(onemol, m, n, 0): template-local
                   !.molecule = 0,
                   !.bond_atom = onemol.bond_atom[m],
                   !.angle_atom = onemol.angle_atom[m],
                   !.special = onemol.special[m]]
       IN StampFrom(Append(atoms, a), center, rot, m + 1)
add_molecule(atoms, center, rot) == StampFrom(atoms, center, rot, 1)

\* the rotations add_molecule can use
Identity == [perm |-> <<1, 2, 3>>, sign |-> <<1, 1, 1>>]
QuarterZ == [perm |-> <<2, 1, 3>>, sign |-> <<-1, 1, 1>>]
Rotations ==
  IF cmd.mode = "ATOM" \/ cmd.quat_user THEN {Identity} ELSE {Identity, QuarterZ}

\* "if (mode == ATOM) create_atom(type, x) else add_molecule(x)"
Place(atoms, type, x, rot) ==
  IF cmd.mode = "ATOM" THEN create_atom(atoms, type, x)
  ELSE add_molecule(atoms, x, rot)

-----------------------------------------------------------------------------
(* command(): the bounds of my sub-box, lines 340-395                      *)

\* epsilon[d] = domain->prd[d] * EPSILON
epsilon(d) == (domain.boxhi[d] - domain.boxlo[d]) \div UnitLen

\* "I am lo proc" / "I am hi proc" on axis d, for both layouts
IsLoProc(r, d) ==
  IF comm.layout # "LAYOUT_TILED" THEN comm.myloc[r][d] = 0
  ELSE domain.sublo[r][d] = domain.boxlo[d]         \* mysplit[d][0] == 0.0
IsHiProc(r, d) ==
  IF comm.layout # "LAYOUT_TILED" THEN comm.myloc[r][d] = comm.procgrid[d] - 1
  ELSE domain.subhi[r][d] = domain.boxhi[d]         \* mysplit[d][1] == 1.0

\* the lower bound of a rank moved up by EPSILON box lengths instead of down
SetSubloUp(r) ==
  [d \in Axes |->
     IF cmd.style \in {"BOX", "REGION"} /\ domain.periodicity[d] /\ IsLoProc(r, d)
     THEN domain.sublo[r][d] + epsilon(d)
     ELSE domain.sublo[r][d]]

SetSublo(r) ==
  [d \in Axes |->
     IF cmd.style \in {"BOX", "REGION"} /\ domain.periodicity[d] /\ IsLoProc(r, d)
     THEN domain.sublo[r][d] - epsilon(d)
     ELSE domain.sublo[r][d]]
SetSubhi(r) ==
  [d \in Axes |->
     IF cmd.style \in {"BOX", "REGION"} /\ domain.periodicity[d] /\ IsHiProc(r, d)
     THEN domain.subhi[r][d] - 2 * epsilon(d)
     ELSE domain.subhi[r][d]]

\* the ownership test with a closed upper bound
InSubboxClosed(coord, lo, hi) ==
  \A d \in Axes : coord[d] >= lo[d] /\ coord[d] <= hi[d]

\* the ownership test: coord in [sublo, subhi) on every axis
InSubbox(coord, lo, hi) ==
  /\ coord[1] >= lo[1] /\ coord[1] < hi[1]
  /\ coord[2] >= lo[2] /\ coord[2] < hi[2]
  /\ coord[3] >= lo[3] /\ coord[3] < hi[3]

-----------------------------------------------------------------------------
(* add_lattice: the index box, lines 827-892                               *)

\* a narrowing that takes the region's bounding box two cells too high
BboxShifted(r) ==
  IF cmd.style = "REGION" /\ region.bboxflag
  THEN [lo |-> [d \in Axes |-> region.lo[d] + 2 * UnitLen],
        hi |-> [d \in Axes |-> region.hi[d] + 2 * UnitLen]]
  ELSE [lo |-> domain.sublo[r], hi |-> domain.subhi[r]]

\* bboxlo, bboxhi: my sub-domain, narrowed by the region's bounding box
Bbox(r) ==
  LET lo0 == domain.sublo[r]
      hi0 == domain.subhi[r]
      narrow == cmd.style = "REGION" /\ region.bboxflag
      lo1 == [d \in Axes |->
                IF narrow /\ region.lo[d] > lo0[d]
                THEN (IF region.lo[d] > hi0[d] THEN hi0[d] ELSE region.lo[d])
                ELSE lo0[d]]
      hi1 == [d \in Axes |->
                IF narrow /\ region.hi[d] < hi0[d]
                THEN (IF region.hi[d] < lo1[d] THEN lo1[d] ELSE region.hi[d])
                ELSE hi0[d]]
  IN [lo |-> lo1, hi |-> hi1]

\* Lattice::bbox over the 8 corners: min and max lattice coordinate per axis,
\* kept in model units (lattice coordinate times UnitLen)
LatticeBbox(bb) ==
  LET corners == {<<cx, cy, cz>> : cx \in {bb.lo[1], bb.hi[1]},
                                   cy \in {bb.lo[2], bb.hi[2]},
                                   cz \in {bb.lo[3], bb.hi[3]}}
  IN [min |-> [d \in Axes |-> SetMin({c[d] : c \in corners})],
      max |-> [d \in Axes |-> SetMax({c[d] : c \in corners})]]

\* ilo = static_cast<int>(xmin) - 1; if (xmin < 0.0) ilo--;  ihi = static_cast<int>(xmax) + 1
LoopLo(xmin) == TruncDiv(xmin, UnitLen) - 1 - (IF xmin < 0 THEN 1 ELSE 0)
LoopHi(xmax) == TruncDiv(xmax, UnitLen) + 1
LoopBounds(r) ==
  LET lb == LatticeBbox(Bbox(r))
  IN [ilo |-> LoopLo(lb.min[1]), ihi |-> LoopHi(lb.max[1]),
      jlo |-> LoopLo(lb.min[2]), jhi |-> LoopHi(lb.max[2]),
      klo |-> LoopLo(lb.min[3]), khi |-> LoopHi(lb.max[3])]

-----------------------------------------------------------------------------
(* loop_lattice, lines 955-1025                                            *)

\* the n-th candidate (from 0) of "for k, for j, for i, for m"
NI(b) == b.ihi - b.ilo + 1
NJ(b) == b.jhi - b.jlo + 1
NK(b) == b.khi - b.klo + 1
NCand(b) == NK(b) * NJ(b) * NI(b) * lattice.nbasis
Cand(b, n) ==
  LET m == n % lattice.nbasis
      c == n \div lattice.nbasis
  IN [i |-> b.ilo + (c % NI(b)),
      j |-> b.jlo + ((c \div NI(b)) % NJ(b)),
      k |-> b.klo + (c \div (NI(b) * NJ(b))),
      m |-> m + 1]

\* x[] of a candidate, in box coordinates
SiteX(c) ==
  <<lattice2box(c.i, lattice.basis[c.m][1]),
    lattice2box(c.j, lattice.basis[c.m][2]),
    lattice2box(c.k, lattice.basis[c.m][3])>>

\* the candidate survives the region and variable tests
PassesFilters(x) ==
  /\ cmd.style = "REGION" => RegionMatch(x)
  /\ cmd.varflag => vartest(x) # 0

\* an action that creates at every owned site of INSERT_SELECTED
SiteActionAll(action, r, c, x, st) ==
  IF action \in {"INSERT", "INSERT_SELECTED"} THEN
    [st EXCEPT !.atoms = Place(@, cmd.basistype[c.m], x, st.rot)]
  ELSE IF action = "COUNT" THEN
    (IF st.nlatt = MAXSMALLINT THEN [st EXCEPT !.nlatt_overflow = 1] ELSE st)
  ELSE st

\* the action on an owned site; st.nlatt is the site's sequence number
SiteAction(action, r, c, x, st) ==
  IF action = "INSERT" THEN
    [st EXCEPT !.atoms = Place(@, cmd.basistype[c.m], x, st.rot)]
  ELSE IF action = "COUNT" THEN
    (IF st.nlatt = MAXSMALLINT THEN [st EXCEPT !.nlatt_overflow = 1] ELSE st)
  ELSE IF action = "INSERT_SELECTED" /\ st.flag[st.nlatt - st.base + 1] = 1 THEN
    [st EXCEPT !.atoms = Place(@, cmd.basistype[c.m], x, st.rot),
               !.reads = Append(@, st.nlatt)]
  ELSE IF action = "INSERT_SELECTED" THEN
    [st EXCEPT !.reads = Append(@, st.nlatt)]
  ELSE st

\* a candidate reaches the action: none of the three "continue" is taken
ReachesAction(r, c) ==
  LET x == SiteX(c) IN PassesFilters(x) /\ InSubbox(x, sublo[r], subhi[r])

\* a loop body that leaves the counter alone at a site whose flag is unset
LoopBodyCountsCreated(action, r, c, st) ==
  LET done == SiteAction(action, r, c, SiteX(c), st)
      skip == action = "INSERT_SELECTED" /\ st.flag[st.nlatt - st.base + 1] = 0
  IN [done EXCEPT !.nlatt = IF skip THEN @ ELSE @ + 1,
                  !.sites = Append(@, [site |-> c, seq |-> st.nlatt])]

\* nlatt++ on a 32-bit int: at MAXSMALLINT the increment is a signed overflow,
\* which the language leaves undefined; the build either gives nlatt some
\* value and goes on, or traps and ends the process
Inc32(n) == IF n = MAXSMALLINT THEN atom.overflow_to ELSE n + 1
Traps(n) == n = MAXSMALLINT /\ atom.overflow_traps

\* a loop body whose counter stands still during the INSERT_SELECTED pass
LoopBodyStuck(action, r, c, st) ==
  LET done == SiteAction(action, r, c, SiteX(c), st)
  IN [done EXCEPT !.nlatt = IF action = "INSERT_SELECTED" THEN @ ELSE @ + 1,
                  !.sites = Append(@, [site |-> c, seq |-> st.nlatt])]

\* the rest of the loop body for such a candidate: the action, then nlatt++
LoopBody(action, r, c, st) ==
  LET done == SiteAction(action, r, c, SiteX(c), st)
  IN [done EXCEPT !.nlatt = Inc32(@),
                  !.trapped = Traps(st.nlatt),
                  !.sites = Append(@, [site |-> c, seq |-> st.nlatt])]

RECURSIVE LoopFrom(_, _, _, _, _)
LoopFrom(action, r, cs, n, st) ==
  IF n > Len(cs) \/ st.trapped THEN st
  ELSE LoopFrom(action, r, cs, n + 1, LoopBody(action, r, cs[n], st))

\* the sites of rank r that the loop bounds of the model leave out: at most
\* MAXSMALLINT of them, all owned and accepted, none of them selected, and
\* visited before the others, so that they take nlatt from 0 to Bulk(r)
\* without reaching the overflow test; fl holds the flags of the other sites
Bulk(r) == IF r \in DOMAIN lattice.bulk THEN lattice.bulk[r] ELSE 0

\* loop_lattice(action) on rank r with loop bounds b and molecule rotation
\* rot: the candidates in loop order, those that reach the action, and the
\* action on each of them in turn
loop_lattice(action, r, b, overflow, fl, rot) ==
  LET cands == [n \in 1..NCand(b) |-> Cand(b, n - 1)]
      reach == SelectSeq(cands, LAMBDA c : ReachesAction(r, c))
  IN LoopFrom(action, r, reach, 1,
              [nlatt |-> 0 + Bulk(r), base |-> Bulk(r), nlatt_overflow |-> overflow,
               atoms |-> peratom[r], trapped |-> FALSE,
               flag |-> fl, sites |-> <<>>, reads |-> <<>>, rot |-> rot])

PassRecord(action, st) ==
  [action |-> action, sites |-> st.sites, nlatt |-> st.nlatt, reads |-> st.reads]

-----------------------------------------------------------------------------
(* command(): set-up of the rank, lines 340-412                            *)

\* bigint nblocal = atom->nlocal
nblocal(r, atoms) ==
  (IF r \in DOMAIN atom.nbulk THEN atom.nbulk[r] ELSE 0) + Len(atoms)

Setup(r) ==
  /\ At(r, "setup")
  /\ sublo' = [sublo EXCEPT ![r] = SetSublo(r)]
  /\ subhi' = [subhi EXCEPT ![r] = SetSubhi(r)]
  /\ nlocal_previous' = [nlocal_previous EXCEPT ![r] = Len(peratom[r])]
  /\ pc' = [pc EXCEPT ![r] = "add"]
  /\ UNCHANGED <<cfgvars, latvars, ranvars, peratom, molvars, sent, events>>

-----------------------------------------------------------------------------
(* add_lattice, lines 820-944                                              *)

\* lines 827-902: index box, COUNT pass, overflow flags to the reduction
LatticeCount(r) ==
  /\ At(r, "add")
  /\ cmd.style \in {"BOX", "REGION"}
  /\ \E b \in {LoopBounds(r)} :
       \E st \in {loop_lattice("COUNT", r, b, 0, <<>>, Identity)} :
        /\ ibox' = [ibox EXCEPT ![r] = b]
        /\ nlatt_overflow' = [nlatt_overflow EXCEPT ![r] = st.nlatt_overflow]
        /\ IF st.trapped THEN
             /\ events' = Mark(r, "abort: signed integer overflow")
             /\ pc' = [pc EXCEPT ![r] = "abort"]
             /\ UNCHANGED <<nlatt, passes, sent>>
           ELSE
             /\ nlatt' = [nlatt EXCEPT ![r] = st.nlatt]
             /\ passes' = [passes EXCEPT ![r] = Append(@, PassRecord("COUNT", st))]
             /\ sent' = Post(r, "overflow", st.nlatt_overflow)
             /\ pc' = [pc EXCEPT ![r] = "lat_overflow"]
             /\ UNCHANGED events
  /\ UNCHANGED <<cfgvars, ranvars, peratom, nlocal_previous, sublo, subhi,
                 nsubset, flag, flagsel, molvars>>

\* lines 902-935: the reduced overflow flag, then the INSERT pass, or the
\* site total to the reduction when a subset is asked for; after the INSERT
\* pass the rank is back in command(), lines 423-428
LatticeInsert(r) ==
  /\ At(r, "lat_overflow")
  /\ Reduced(r)
  /\ IF AllreduceSum(r) # 0 THEN
       /\ events' = Mark(r, "error: lattice size overflow")
       /\ pc' = [pc EXCEPT ![r] = "error"]
       /\ UNCHANGED <<peratom, nlatt, passes, sent>>
     ELSE IF cmd.subsetflag = "NONE" THEN
       \E rot \in Rotations :
         \E st \in {loop_lattice("INSERT", r, ibox[r], nlatt_overflow[r], <<>>, rot)} :
            /\ peratom' = [peratom EXCEPT ![r] = st.atoms]
            /\ nlatt' = [nlatt EXCEPT ![r] = st.nlatt]
            /\ passes' = [passes EXCEPT ![r] = Append(@, PassRecord("INSERT", st))]
            /\ sent' = Post(r, "natoms", nblocal(r, st.atoms))
            /\ events' = Mark(r, "inserted")
            /\ pc' = [pc EXCEPT ![r] = "natoms"]
     ELSE
       /\ sent' = Post(r, "bnlatt", nlatt[r])
       /\ pc' = [pc EXCEPT ![r] = "lat_subset"]
       /\ UNCHANGED <<peratom, nlatt, passes, events>>
  /\ UNCHANGED <<cfgvars, ranvars, nlocal_previous, sublo, subhi, ibox,
                 nlatt_overflow, nsubset, flag, flagsel, molvars>>

\* RanMars::select_subset(nsubset, nlatt, flag, next), a collective: over all
\* ranks exactly ntarget flags are set.  nl[s] is the site count of rank s.
RECURSIVE Before(_, _)
Before(nl, s) == IF s = 1 THEN 0 ELSE nl[s - 1] + Before(nl, s - 1)
SubsetFlags(nl, ntarget) ==
  LET total == Before(nl, comm.nprocs + 1)
  IN {[s \in Ranks |->
         [n \in 1..nl[s] |-> IF (Before(nl, s) + n) \in S THEN 1 ELSE 0]] :
        S \in {T \in SUBSET (1..total) : Cardinality(T) = ntarget}}

\* nsubset = static_cast<bigint>(subsetfrac * bnlattall) for RATIO
SubsetSize(r, bnlattall) ==
  IF cmd.subsetflag = "RATIO"
  THEN (cmd.subsetfrac[1] * bnlattall) \div cmd.subsetfrac[2]
  ELSE nsubset[r]

\* a test that also refuses the subset of all the sites
SubsetTooLargeOrEqual(ns, bnlattall) == ns >= bnlattall

\* "if (nsubset > bnlattall)"
SubsetTooLarge(ns, bnlattall) == ns > bnlattall

\* lines 913-943: the subset size against the global site total, the flags,
\* the INSERT_SELECTED pass; then command(), lines 423-428
LatticeSubset(r) ==
  /\ At(r, "lat_subset")
  /\ Reduced(r)
  /\ LET bnlattall == AllreduceSum(r)
         ns == SubsetSize(r, bnlattall)
         nl == [s \in Ranks |-> Contribution(r, s) - Bulk(s)]
     IN /\ nsubset' = [nsubset EXCEPT ![r] = ns]
        /\ IF SubsetTooLarge(ns, bnlattall) THEN
             /\ events' = Mark(r, "error: subset size > # of lattice sites")
             /\ pc' = [pc EXCEPT ![r] = "error"]
             /\ UNCHANGED <<peratom, nlatt, passes, sent, flag, flagsel>>
           ELSE
             /\ \E fl \in (IF flagsel THEN {flag} ELSE SubsetFlags(nl, ns)),
                   rot \in Rotations :
                  \E st \in {loop_lattice("INSERT_SELECTED", r, ibox[r],
                                           nlatt_overflow[r], fl[r], rot)} :
                     /\ flag' = fl
                     /\ flagsel' = TRUE
                     /\ peratom' = [peratom EXCEPT ![r] = st.atoms]
                     /\ nlatt' = [nlatt EXCEPT ![r] = st.nlatt]
                     /\ passes' = [passes EXCEPT ![r] =
                                     Append(@, PassRecord("INSERT_SELECTED", st))]
                     /\ sent' = Post(r, "natoms", nblocal(r, st.atoms))
             \* memory->create(flag), the pass, memory->destroy(flag)
             /\ events' = [events EXCEPT ![r] =
                             @ \o <<"flag created", "inserted", "flag destroyed">>]
             /\ pc' = [pc EXCEPT ![r] = "natoms"]
  /\ UNCHANGED <<cfgvars, ranvars, nlocal_previous, sublo, subhi, ibox,
                 nlatt_overflow, molvars>>

-----------------------------------------------------------------------------
(* add_single, lines 622-657, and add_random, lines 663-814                *)

\* creation without the ownership test
MaterializeAnywhere(r, atoms, x, rot) == Place(atoms, cmd.ntype, x, rot)

\* "if atom/molecule is in my subbox, create it"
Materialize(r, atoms, x, rot) ==
  IF InSubbox(x, sublo[r], subhi[r]) THEN Place(atoms, cmd.ntype, x, rot) ELSE atoms

\* add_single, then command() up to the reduction of the atom count
AddSingle(r) ==
  /\ At(r, "add")
  /\ cmd.style = "SINGLE"
  /\ LET x == IF cmd.remapflag THEN remap(rnd[r].xone) ELSE rnd[r].xone
     IN \E rot \in Rotations :
          LET atoms == Materialize(r, peratom[r], x, rot)
          IN /\ rnd' = [rnd EXCEPT ![r].xone = x]
             /\ peratom' = [peratom EXCEPT ![r] = atoms]
             /\ sent' = Post(r, "natoms", nblocal(r, atoms))
  /\ events' = Mark(r, "inserted")
  /\ pc' = [pc EXCEPT ![r] = "natoms"]
  /\ UNCHANGED <<cfgvars, latvars, stream, trylog, nlocal_previous, sublo, subhi,
                 molvars>>

\* an overlap distance that leaves out the molecule's radius
odistCentre == cmd.overlap

\* odist = overlap, "if (mode == MOLECULE) odist += onemol->molradius"
odist == IF cmd.mode = "MOLECULE" THEN cmd.overlap + onemol.molradius ELSE cmd.overlap

\* distsq of the candidate to an atom, by the minimum image
distsq(x, y) ==
  LET del == [d \in Axes |-> minimum_image(d, x[d] - y[d])]
  IN del[1] * del[1] + del[2] * del[2] + del[3] * del[3]

\* an overlap test that only the first rank makes
LocalRejectFirstRank(r, x) ==
  IF r = 1 /\ \E n \in 1..Len(peratom[r]) : distsq(x, peratom[r][n].x) < odist * odist
  THEN 1 ELSE 0

\* reject: some atom of mine is closer to the candidate than odist
LocalReject(r, x) ==
  IF \E n \in 1..Len(peratom[r]) : distsq(x, peratom[r][n].x) < odist * odist
  THEN 1 ELSE 0

\* the bounding box for creation: the box, limited by the region's extent
RandomBounds ==
  LET clip == region.id # "NULL" /\ region.bboxflag
  IN [lo |-> [d \in Axes |-> IF clip THEN Max(domain.boxlo[d], region.lo[d])
                             ELSE domain.boxlo[d]],
      hi |-> [d \in Axes |-> IF clip THEN Min(domain.boxhi[d], region.hi[d])
                             ELSE domain.boxhi[d]]]

\* xone[d] = lo + random->uniform() * (hi - lo); a uniform is <<num, den>>
Candidate(st, u) ==
  [d \in Axes |-> st.lo[d] + (u[d][1] * (st.hi[d] - st.lo[d])) \div u[d][2]]

\* the uniforms one try can draw: x from two values, y and z at the middle
TryDraws == {<<ux, <<1, 2>>, <<1, 2>>>> : ux \in {<<1, 4>>, <<5, 8>>}}

\* the try a rank makes after ndraw calls of uniform(), counted from 1
TryIndex(ndraw) == (ndraw - WarmUp) \div 3 + 1

\* RanPark is a function of the seed: every rank's t-th try gets the same
\* uniforms.  The seed's stream is revealed as the first rank reaches it, and
\* repeats after StreamPeriod tries.
StreamPeriod == 4
StreamSlot(ndraw) == ((TryIndex(ndraw) - 1) % StreamPeriod) + 1

\* lines 680-717: the generator and its warm-up, the bounding box
RandomStart(r) ==
  /\ At(r, "add")
  /\ cmd.style = "RANDOM"
  /\ LET b == RandomBounds IN
     IF \E d \in Axes : b.lo[d] > b.hi[d] THEN
       /\ events' = Mark(r, "error: no overlap of box and region")
       /\ pc' = [pc EXCEPT ![r] = "error"]
       /\ rnd' = [rnd EXCEPT ![r].ndraw = WarmUp]
     ELSE
       /\ rnd' = [rnd EXCEPT ![r] = [@ EXCEPT !.ndraw = WarmUp, !.lo = b.lo, !.hi = b.hi,
                                                 !.i = 0, !.ninsert = 0,
                                                 !.ntry = 0, !.success = 0]]
       /\ pc' = [pc EXCEPT ![r] = "ran_try"]
       /\ events' = events
  /\ UNCHANGED <<cfgvars, latvars, stream, trylog, peratom, nlocal_previous, sublo,
                 subhi, molvars, sent>>

\* a loop test that lets one more try through
BudgetLeftOrEqual(st) == st.ntry <= cmd.maxtry

\* "while (ntry < maxtry)"
BudgetLeft(st) == st.ntry < cmd.maxtry

\* a try failed: the next try of the attempt, or "if (!success) continue" to
\* the next attempt, whose first statements reset success and ntry
AfterReject(st) ==
  IF BudgetLeft(st) THEN st
  ELSE [st EXCEPT !.i = @ + 1, !.ntry = 0, !.success = 0]

\* all tests passed: success = 1, ninsert++, and on to the next attempt
AfterAccept(st) ==
  [st EXCEPT !.ninsert = @ + 1, !.i = @ + 1, !.ntry = 0, !.success = 0]

Logged(r, st, round, outcome) ==
  [trylog EXCEPT ![r] = Append(@, [i |-> st.i, ntry |-> st.ntry, xone |-> st.xone,
                                   ndraw |-> st.ndraw, round |-> round,
                                   outcome |-> outcome])]

\* lines 732-772: one try, up to its overlap reduction if it has one
RandomTry(r) ==
  /\ At(r, "ran_try")
  /\ rnd[r].i < cmd.nrandom
  /\ LET t == StreamSlot(rnd[r].ndraw) IN
     \E u \in (IF t <= Len(stream) THEN {stream[t]} ELSE TryDraws) :
       LET st == [rnd[r] EXCEPT !.ntry = @ + 1, !.ndraw = @ + 3,
                                !.xone = Candidate(rnd[r], u), !.reject = 0]
           x == st.xone
       IN /\ stream' = IF t <= Len(stream) THEN stream ELSE Append(stream, u)
          /\ IF \/ region.id # "NULL" /\ ~RegionMatch(x)
                \/ cmd.varflag /\ vartest(x) = 0
             THEN /\ rnd' = [rnd EXCEPT ![r] = AfterReject(st)]
                  /\ trylog' = Logged(r, st, 0, "filtered")
                  /\ UNCHANGED <<peratom, sent, pc>>
             ELSE IF cmd.overlapflag
             THEN /\ rnd' = [rnd EXCEPT ![r] = [st EXCEPT !.reject = LocalReject(r, x)]]
                  /\ sent' = Post(r, "overlap", LocalReject(r, x))
                  /\ pc' = [pc EXCEPT ![r] = "ran_reduce"]
                  /\ UNCHANGED <<peratom, trylog>>
             ELSE \E rot \in Rotations :
                    /\ rnd' = [rnd EXCEPT ![r] = AfterAccept(st)]
                    /\ peratom' = [peratom EXCEPT ![r] = Materialize(r, @, x, rot)]
                    /\ trylog' = Logged(r, st, 0, "accepted")
                    /\ UNCHANGED <<sent, pc>>
  /\ UNCHANGED <<cfgvars, latvars, nlocal_previous, sublo, subhi, molvars, events>>

\* the rank's own flag in place of the reduced one
RejectLocal(r) == rnd[r].reject

\* reject_any, from MPI_Allreduce(&reject, &reject_any, 1, MPI_INT, MPI_MAX)
RejectAny(r) == AllreduceMax(r)

\* lines 775-803: the reduced flag, and what follows the try
RandomReduce(r) ==
  /\ At(r, "ran_reduce")
  /\ Reduced(r)
  /\ IF RejectAny(r) # 0
     THEN /\ rnd' = [rnd EXCEPT ![r] = AfterReject(@)]
          /\ trylog' = Logged(r, rnd[r], Round(r), "overlap")
          /\ peratom' = peratom
     ELSE \E rot \in Rotations :
            /\ rnd' = [rnd EXCEPT ![r] = AfterAccept(@)]
            /\ peratom' = [peratom EXCEPT ![r] = Materialize(r, @, rnd[r].xone, rot)]
            /\ trylog' = Logged(r, rnd[r], Round(r), "accepted")
  /\ pc' = [pc EXCEPT ![r] = "ran_try"]
  /\ UNCHANGED <<cfgvars, latvars, stream, nlocal_previous, sublo, subhi, molvars,
                 sent, events>>

\* a warning test that also fires when every attempt succeeded
ShortfallOrEqual(r) == rnd[r].ninsert <= cmd.nrandom /\ r = 1

\* "if (ninsert < nrandom && comm->me == 0)"
Shortfall(r) == rnd[r].ninsert < cmd.nrandom /\ r = 1

\* lines 724, 805-813: the attempts are over; the warning; then command() up
\* to the reduction of the atom count
RandomEnd(r) ==
  /\ At(r, "ran_try")
  /\ rnd[r].i >= cmd.nrandom
  /\ events' = [events EXCEPT ![r] =
                  @ \o (IF Shortfall(r) THEN <<"warning: only inserted">> ELSE <<>>)
                    \o <<"inserted">>]
  /\ sent' = Post(r, "natoms", nblocal(r, peratom[r]))
  /\ pc' = [pc EXCEPT ![r] = "natoms"]
  /\ UNCHANGED <<cfgvars, latvars, ranvars, peratom, nlocal_previous, sublo, subhi,
                 molvars>>

-----------------------------------------------------------------------------
(* command() after the atoms are added, lines 423-579                      *)

\* Atom::tag_extend: atoms with tag 0 get the ids after the global maximum,
\* rank by rank in rank order, in local order within a rank
MaxTag(atoms) == SetMax({0} \cup {atoms[n].tag : n \in 1..Len(atoms)})
NoTag(atoms) == Cardinality({n \in 1..Len(atoms) : atoms[n].tag = 0})
tag_extend(atoms, first) ==
  [n \in 1..Len(atoms) |->
     IF atoms[n].tag # 0 THEN atoms[n]
     ELSE [atoms[n] EXCEPT !.tag =
             first + Cardinality({k \in 1..(n - 1) : atoms[k].tag = 0})]]

\* a test that lets the largest bigint through
TooManyNegative(n) == n < 0

\* "atom->natoms < 0 || atom->natoms >= MAXBIGINT"; MAXBIGINT is 2^63 - 1,
\* above every sum of the model, or 2^31 - 1 where bigint is 32 bits wide
TooMany(n) == n < 0 \/ (atom.bigbits = 32 /\ n >= MAXSMALLINT)

\* lines 427-434: the new global count; tag_extend's own reductions begin
SetNatoms(r) ==
  /\ At(r, "natoms")
  /\ Reduced(r)
  /\ natoms' = [natoms EXCEPT ![r] = AllreduceBig(r)]
  /\ IF TooMany(AllreduceBig(r))
     THEN /\ sent' = sent
          /\ pc' = [pc EXCEPT ![r] = "error"]
          /\ events' = Mark(r, "error: too many total atoms")
     ELSE IF atom.tag_enable
     THEN /\ sent' = Post(r, "tag_extend",
                          [maxtag |-> MaxTag(peratom[r]), notag |-> NoTag(peratom[r])])
          /\ pc' = [pc EXCEPT ![r] = "tags"]
          /\ events' = events
     ELSE IF cmd.mode = "MOLECULE"
     THEN /\ sent' = Post(r, "nmolme",
                          (Len(peratom[r]) - nlocal_previous[r]) \div onemol.natoms)
          /\ pc' = [pc EXCEPT ![r] = "mol_sum"]
          /\ events' = events
     ELSE /\ sent' = sent
          /\ pc' = [pc EXCEPT ![r] = "done"]
          /\ events' = Mark(r, "done")
  /\ UNCHANGED <<cfgvars, latvars, ranvars, peratom, nlocal_previous, sublo, subhi,
                 maxmol, moloffset>>

\* molcreate = (atom->nlocal - nlocal_previous) / onemol->natoms
molcreate(r) == (Len(peratom[r]) - nlocal_previous[r]) \div onemol.natoms

\* lines 434-467: the new atoms get their ids; in MOLECULE mode the count of
\* molecules I created goes to the reduction
TagExtend(r) ==
  /\ At(r, "tags")
  /\ Reduced(r)
  /\ LET maxall == SetMax({Contribution(r, s).maxtag : s \in Ranks})
         before == SumSeq([s \in 1..(r - 1) |-> Contribution(r, s).notag])
     IN peratom' = [peratom EXCEPT ![r] = tag_extend(@, maxall + before + 1)]
  /\ IF cmd.mode = "MOLECULE"
     THEN /\ sent' = Post(r, "nmolme", molcreate(r))
          /\ pc' = [pc EXCEPT ![r] = "mol_sum"]
          /\ events' = events
     ELSE /\ sent' = sent
          /\ pc' = [pc EXCEPT ![r] = "done"]
          /\ events' = Mark(r, "done")
  /\ UNCHANGED <<cfgvars, latvars, ranvars, nlocal_previous, sublo, subhi, molvars>>

\* a stitching step that adds the offset to the references twice
StitchAtomTwice(a, m, offset, moloff) ==
  [a EXCEPT !.molecule = moloff + 1,
            !.bond_atom = [j \in 1..Len(@) |-> @[j] + 2 * offset],
            !.special = [j \in 1..Len(@) |-> @[j] + 2 * offset]]

\* lines 515-564: molecule ids and rebased references of the molecules I
\* created.  i and m count from 0 as in the source; atoms are numbered from 1.
StitchAtom(a, m, offset, moloff) ==
  LET a1 == IF atom.molecule_flag
            THEN [a EXCEPT !.molecule =
                    IF onemol.moleculeflag THEN moloff + onemol.molecule[m + 1]
                    ELSE moloff + 1]
            ELSE a
  IN IF atom.molecular = "TEMPLATE" THEN [a1 EXCEPT !.molatom = m]
     ELSE IF atom.molecular # "ATOMIC" THEN
       [a1 EXCEPT
          !.bond_atom = IF onemol.bondflag
                        THEN [j \in 1..Len(@) |-> @[j] + offset] ELSE @,
          \* angle_atom1..3; the dihedral and improper lists are rebased alike
          !.angle_atom = IF onemol.angleflag
                         THEN [j \in 1..Len(@) |->
                                 [k \in 1..3 |-> @[j][k] + offset]] ELSE @,
          !.special = IF onemol.specialflag
                      THEN [j \in 1..Len(@) |-> @[j] + offset] ELSE @]
     ELSE a1

\* moloffset at the start of molecule i: "moloffset += nmolecules" or "moloffset++"
MolOffsetAt(moloff0, i) ==
  IF ~atom.molecule_flag THEN moloff0
  ELSE IF onemol.moleculeflag THEN moloff0 + i * onemol.nmolecules
  ELSE moloff0 + i

Stitch(atoms, nprev, nmol, moloff0) ==
  [n \in 1..Len(atoms) |->
     IF n <= nprev \/ n > nprev + nmol * onemol.natoms THEN atoms[n]
     ELSE LET i == (n - nprev - 1) \div onemol.natoms
              m == (n - nprev - 1) % onemol.natoms
              \* if (tag) offset = tag[ilocal] - 1, ilocal the molecule's first atom
              offset == IF atom.tag_enable
                        THEN atoms[nprev + i * onemol.natoms + 1].tag - 1 ELSE 0
          IN StitchAtom(atoms[n], m, offset, MolOffsetAt(moloff0, i))]

\* lines 566-578: remap of every local atom, then Irregular::migrate_atoms
Migrate(r, atoms) == [n \in 1..Len(atoms) |-> [atoms[n] EXCEPT !.x = remap(@)]]

\* lines 467-483: the molecule total; my largest previous molecule id goes
\* to the reduction.  Without molecule ids the rank stitches at once.
MolSum(r) ==
  /\ At(r, "mol_sum")
  /\ Reduced(r)
  /\ IF atom.molecule_flag
     THEN /\ sent' = Post(r, "maxmol",
                          SetMax({0} \cup {peratom[r][n].molecule :
                                             n \in 1..nlocal_previous[r]}))
          /\ pc' = [pc EXCEPT ![r] = "mol_max"]
          /\ UNCHANGED <<peratom, events>>
     ELSE /\ peratom' = [peratom EXCEPT ![r] =
                           Migrate(r, Stitch(@, nlocal_previous[r], molcreate(r), 0))]
          /\ events' = [events EXCEPT ![r] = @ \o <<"stitched", "migrate", "done">>]
          /\ pc' = [pc EXCEPT ![r] = "done"]
          /\ sent' = sent
  /\ UNCHANGED <<cfgvars, latvars, ranvars, nlocal_previous, sublo, subhi, molvars>>

\* lines 483-484: maxmol; my molecule count goes to the scan
MolMax(r) ==
  /\ At(r, "mol_max")
  /\ Reduced(r)
  /\ maxmol' = [maxmol EXCEPT ![r] = AllreduceMax(r)]
  /\ sent' = Post(r, "scan", molcreate(r))
  /\ pc' = [pc EXCEPT ![r] = "mol_scan"]
  /\ UNCHANGED <<cfgvars, latvars, ranvars, peratom, nlocal_previous, sublo, subhi,
                 natoms, moloffset, events>>

\* an offset that leaves out the ids held before the command
FirstMolOffsetNoMax(scan, created, maxprev) == scan - created

\* moloffset = moloffset - molcreate + maxmol, after MPI_Scan
FirstMolOffset(scan, created, maxprev) == scan - created + maxprev

\* a rank that asks for the migration before it stitches
MolScanMigrateFirst(r) ==
  /\ At(r, "mol_scan")
  /\ ScanReady(r)
  /\ LET off == FirstMolOffset(ScanSum(r), molcreate(r), maxmol[r])
     IN /\ moloffset' = [moloffset EXCEPT ![r] = off]
        /\ peratom' = [peratom EXCEPT ![r] =
                         Stitch(Migrate(r, @), nlocal_previous[r], molcreate(r), off)]
  /\ events' = [events EXCEPT ![r] = @ \o <<"migrate", "stitched", "done">>]
  /\ pc' = [pc EXCEPT ![r] = "done"]
  /\ UNCHANGED <<cfgvars, latvars, ranvars, nlocal_previous, sublo, subhi,
                 natoms, maxmol, sent>>

\* lines 484-579: my offset from the scan, the stitching loop, the migration
MolScan(r) ==
  /\ At(r, "mol_scan")
  /\ ScanReady(r)
  /\ LET off == FirstMolOffset(ScanSum(r), molcreate(r), maxmol[r])
     IN /\ moloffset' = [moloffset EXCEPT ![r] = off]
        /\ peratom' = [peratom EXCEPT ![r] =
                         Migrate(r, Stitch(@, nlocal_previous[r], molcreate(r), off))]
  /\ events' = [events EXCEPT ![r] = @ \o <<"stitched", "migrate", "done">>]
  /\ pc' = [pc EXCEPT ![r] = "done"]
  /\ UNCHANGED <<cfgvars, latvars, ranvars, nlocal_previous, sublo, subhi,
                 natoms, maxmol, sent>>

-----------------------------------------------------------------------------
(* Inputs                                                                  *)

MaxCells == 2        \* box length in unit cells along the divided axis
MaxProcs == 2        \* ranks

Half == UnitLen \div 2

NoRegion == [id |-> "NULL", lo |-> <<0, 0, 0>>, hi |-> <<0, 0, 0>>, bboxflag |-> FALSE]
NoMolecule ==
  [natoms |-> 1, dx |-> <<<<0, 0, 0>>>>, type |-> <<0>>, bond_atom |-> <<<<>>>>,
   angle_atom |-> <<<<>>>>,
   special |-> <<<<>>>>, molecule |-> <<1>>, nmolecules |-> 1, moleculeflag |-> FALSE,
   bondflag |-> FALSE, angleflag |-> FALSE, specialflag |-> FALSE, molradius |-> 0]
AtomicStyle ==
  [tag_enable |-> TRUE, molecule_flag |-> FALSE, molecular |-> "ATOMIC",
   bigbits |-> 64, nbulk |-> <<>>, overflow_to |-> -MAXSMALLINT - 1,
   overflow_traps |-> FALSE]

\* the arguments every style shares, at the values the parser gives them
\* when the keyword is absent
DefaultCmd ==
  [style |-> "BOX", mode |-> "ATOM", ntype |-> 1, basistype |-> <<1, 1>>,
   varflag |-> FALSE, vexpr |-> "step", vaxis |-> 1, vcut |-> 0,
   subsetflag |-> "NONE", nsubset |-> 0, subsetfrac |-> <<1, 1>>,
   nrandom |-> 0, maxtry |-> DEFAULT_MAXTRY, overlapflag |-> FALSE, overlap |-> 0,
   remapflag |-> FALSE, xone |-> <<0, 0, 0>>, quat_user |-> FALSE,
   dimension |-> 3]

\* lattices: simple cubic (1 basis atom) and body-centred cubic (2)
Lattices ==
  {[nbasis |-> 1, basis |-> <<<<0, 0, 0>>>>, bulk |-> <<>>],
   [nbasis |-> 2, basis |-> <<<<0, 0, 0>>, <<1, 1, 1>>>>, bulk |-> <<>>]}

\* strictly increasing lists of n cut planes taken from S
CutLists(S, n) == {c \in [1..n -> S] : \A i \in 1..n, j \in 1..n : i < j => c[i] < c[j]}

\* a brick decomposition: np ranks side by side along axis a, cut at cuts
Decompose(lo, hi, per, a, cuts, layout) ==
  LET np == Len(cuts) + 1 IN
  [dom |-> [boxlo |-> lo, boxhi |-> hi, periodicity |-> per,
            sublo |-> [r \in 1..np |->
                         [d \in Axes |-> IF d = a /\ r > 1 THEN cuts[r - 1] ELSE lo[d]]],
            subhi |-> [r \in 1..np |->
                         [d \in Axes |-> IF d = a /\ r < np THEN cuts[r] ELSE hi[d]]]],
   com |-> [nprocs |-> np, layout |-> layout,
            procgrid |-> [d \in Axes |-> IF d = a THEN np ELSE 1],
            myloc |-> [r \in 1..np |-> [d \in Axes |-> IF d = a THEN r - 1 ELSE 0]]]]

\* what every rank holds before the command runs
InitRanks(pre) ==
  /\ pc = [r \in Ranks |-> "setup"]
  /\ peratom = pre
  /\ nlocal_previous = [r \in Ranks |-> 0]
  /\ sublo = [r \in Ranks |-> <<0, 0, 0>>]
  /\ subhi = [r \in Ranks |-> <<0, 0, 0>>]
  /\ ibox = [r \in Ranks |-> [ilo |-> 0, ihi |-> 0, jlo |-> 0, jhi |-> 0, klo |-> 0, khi |-> 0]]
  /\ nlatt = [r \in Ranks |-> 0]
  /\ nlatt_overflow = [r \in Ranks |-> 0]
  /\ nsubset = [r \in Ranks |-> cmd.nsubset]
  /\ flag = [r \in Ranks |-> <<>>]
  /\ flagsel = FALSE
  /\ rnd = [r \in Ranks |-> [i |-> 0, ntry |-> 0, success |-> 0, ninsert |-> 0,
                             xone |-> cmd.xone, ndraw |-> 0, reject |-> 0,
                             lo |-> <<0, 0, 0>>, hi |-> <<0, 0, 0>>]]
  /\ natoms = [r \in Ranks |-> 0]
  /\ maxmol = [r \in Ranks |-> 0]
  /\ moloffset = [r \in Ranks |-> 0]
  /\ sent = [r \in Ranks |-> <<>>]
  /\ stream = <<>>
  /\ passes = [r \in Ranks |-> <<>>]
  /\ trylog = [r \in Ranks |-> <<>>]
  /\ events = [r \in Ranks |-> <<>>]

\* box offsets from the lattice planes, in units of EPSILON
BoxOffsets == {-1, 0, 1}
Layouts == {"LAYOUT_UNIFORM", "LAYOUT_TILED"}

LatticeInputs(dec, lat) ==
  /\ domain = dec.dom
  /\ comm = dec.com
  /\ lattice = lat
  /\ cmd = DefaultCmd
  /\ region = NoRegion
  /\ onemol = NoMolecule
  /\ atom = AtomicStyle
  /\ InitRanks([r \in 1..dec.com.nprocs |-> <<>>])

\* Lattice runs that vary one axis: the box is `cells` unit cells long on
\* axis a, with its faces off the lattice planes by a few EPSILON, and one
\* cell long on the other two; the ranks cut axis a on half-cell planes.
InitGeometry ==
  \E a \in Axes, cells \in 1..MaxCells, np \in 1..MaxProcs, off \in BoxOffsets,
     per \in BOOLEAN, lat \in Lattices :
    LET lo == [d \in Axes |-> IF d = a THEN off ELSE 0]
        hi == [d \in Axes |-> lo[d] + (IF d = a THEN cells ELSE 1) * UnitLen]
        pp == [d \in Axes |-> IF d = a THEN per ELSE TRUE]
    IN \E cuts \in CutLists({h * Half : h \in 1..(2 * cells - 1)}, np - 1) :
         LatticeInputs(Decompose(lo, hi, pp, a, cuts, "LAYOUT_UNIFORM"), lat)

\* Lattice runs in a cube of L x L x L cells, every face off the lattice
\* planes by the same few EPSILON, the ranks cutting axis a into equal parts,
\* as a grid of bricks or as a tiling
InitCube ==
  \E a \in Axes, L \in 1..MaxCells, np \in 1..MaxProcs, off \in BoxOffsets,
     per \in BOOLEAN, layout \in Layouts :
    LET lo == [d \in Axes |-> off]
        hi == [d \in Axes |-> off + L * UnitLen]
        pp == [d \in Axes |-> per]
        cuts == [k \in 1..(np - 1) |-> off + (k * L * UnitLen) \div np]
    IN LatticeInputs(Decompose(lo, hi, pp, a, cuts, layout),
                     CHOOSE l \in Lattices : l.nbasis = 1)

MaxSubset == 3       \* largest subset size asked for

\* regions: the lower half-cell slab with a bounding box, and a slab around
\* the first cell face that declares none
Regions ==
  {[id |-> "slab", lo |-> <<0, 0, 0>>, hi |-> <<Half, UnitLen, UnitLen>>,
    bboxflag |-> TRUE],
   [id |-> "open", lo |-> <<Half, 0, 0>>, hi |-> <<3 * Half, UnitLen, UnitLen>>,
    bboxflag |-> FALSE]}

\* the filters of a lattice run: style, region, var keyword
Filters ==
  {[style |-> "BOX", region |-> NoRegion, varflag |-> FALSE, vexpr |-> "step"]}
  \cup {[style |-> "REGION", region |-> g, varflag |-> FALSE, vexpr |-> "step"] :
          g \in Regions}
  \cup {[style |-> "BOX", region |-> NoRegion, varflag |-> TRUE, vexpr |-> e] :
          e \in {"step", "diff"}}
  \cup {[style |-> "REGION", region |-> g, varflag |-> TRUE, vexpr |-> "diff"] :
          g \in {h \in Regions : h.bboxflag}}

\* the subset keywords: none, "subset n seed", "ratio f seed"
Subsets ==
  {[subsetflag |-> "NONE", nsubset |-> 0, subsetfrac |-> <<1, 1>>]}
  \cup {[subsetflag |-> "SUBSET", nsubset |-> n, subsetfrac |-> <<1, 1>>] :
          n \in 1..MaxSubset}
  \cup {[subsetflag |-> "RATIO", nsubset |-> 0, subsetfrac |-> f] :
          f \in {<<1, 2>>, <<1, 1>>}}

\* Lattice runs that vary the filters and the subset: a periodic box of
\* 2 x 1 x 1 cells on the lattice planes, cut along x on half-cell planes;
\* a subset is taken of the whole lattice or of a region of it
InitSubset ==
  \E np \in 1..MaxProcs, lat \in Lattices, f \in Filters, sub \in Subsets :
    \E cuts \in CutLists({h * Half : h \in 1..3}, np - 1) :
      /\ sub.subsetflag = "NONE" \/ (~f.varflag /\ f.region.id # "open")
      /\ LET dec == Decompose(<<0, 0, 0>>, <<2 * UnitLen, UnitLen, UnitLen>>,
                              <<TRUE, TRUE, TRUE>>, 1, cuts, "LAYOUT_UNIFORM")
         IN /\ domain = dec.dom
            /\ comm = dec.com
            /\ lattice = lat
            /\ cmd = [DefaultCmd EXCEPT
                        !.style = f.style, !.varflag = f.varflag, !.vexpr = f.vexpr,
                        !.vcut = Half, !.basistype = <<1, 2>>,
                        !.subsetflag = sub.subsetflag, !.nsubset = sub.nsubset,
                        !.subsetfrac = sub.subsetfrac]
            /\ region = f.region
            /\ onemol = NoMolecule
            /\ atom = AtomicStyle
            /\ InitRanks([r \in 1..np |-> <<>>])

AllRanks == 1..MaxProcs

LatticeNext ==
  \E r \in AllRanks :
    \/ Setup(r)
    \/ LatticeCount(r)
    \/ LatticeInsert(r)
    \/ LatticeSubset(r)
    \/ SetNatoms(r)
    \/ TagExtend(r)

InitLattice == InitGeometry \/ InitCube \/ InitSubset
SpecLattice == InitLattice /\ [][LatticeNext]_vars

\* Lattice runs on a rank that owns close to 2^31 sites: a periodic box whose
\* drawn part is 2 x 1 x 1 cells with one site per cell; rank 1 owns bulk
\* further sites.  Without a subset the run is taken only where the count
\* overflows; with "subset 1" the one selected site is a drawn one.
HugeBulks == {MAXSMALLINT - 2, MAXSMALLINT}
OverflowOutcomes == {-MAXSMALLINT - 1, 0, MAXSMALLINT}
InitHuge ==
  \E np \in 1..MaxProcs, b \in HugeBulks, sub \in {"NONE", "SUBSET"},
     ub \in OverflowOutcomes, trap \in BOOLEAN, ids \in BOOLEAN :
    \E cuts \in CutLists({h * Half : h \in 1..3}, np - 1) :
      /\ sub = "NONE" => b = MAXSMALLINT
      /\ trap => ub = 0
      /\ LET dec == Decompose(<<0, 0, 0>>, <<2 * UnitLen, UnitLen, UnitLen>>,
                              <<TRUE, TRUE, TRUE>>, 1, cuts, "LAYOUT_UNIFORM")
         IN /\ domain = dec.dom
            /\ comm = dec.com
            /\ lattice = [nbasis |-> 1, basis |-> <<<<0, 0, 0>>>>, bulk |-> <<b>>]
            /\ cmd = [DefaultCmd EXCEPT !.subsetflag = sub,
                                        !.nsubset = IF sub = "SUBSET" THEN 1 ELSE 0]
            /\ region = NoRegion
            /\ onemol = NoMolecule
            /\ atom = [AtomicStyle EXCEPT !.overflow_to = ub, !.overflow_traps = trap,
                                      !.tag_enable = ids]
            /\ InitRanks([r \in 1..np |-> <<>>])

SpecHuge == InitHuge /\ [][LatticeNext]_vars

-----------------------------------------------------------------------------
(* Lattice styles: ownership, created set, passes, subsets                 *)

\* every rank has returned from command() without an error
Completed == \A r \in Ranks : pc[r] = "done"

\* the lattice sites of the cells up to one cell beyond the box
CellRange(d) ==
  (TruncDiv(domain.boxlo[d], UnitLen) - 1)..(TruncDiv(domain.boxhi[d], UnitLen) + 1)
NearSites ==
  {[i |-> i, j |-> j, k |-> k, m |-> m] :
     i \in CellRange(1), j \in CellRange(2), k \in CellRange(3),
     m \in 1..lattice.nbasis}

\* the global box, half-open on every axis
GlobalBox(x) == \A d \in Axes : x[d] >= domain.boxlo[d] /\ x[d] < domain.boxhi[d]

\* the insertion box: on a periodic axis both faces are moved down, the lower
\* by EPSILON box lengths and the upper by twice that
InsertionBox(x) ==
  \A d \in Axes :
    IF domain.periodicity[d]
    THEN x[d] >= domain.boxlo[d] - epsilon(d) /\ x[d] < domain.boxhi[d] - 2 * epsilon(d)
    ELSE x[d] >= domain.boxlo[d] /\ x[d] < domain.boxhi[d]

\* the ranks whose ownership test accepts x
Owners(x) == {r \in Ranks : InSubbox(x, sublo[r], subhi[r])}

\* the atoms a rank has added (none before it recorded nlocal_previous), and
\* the ranks that added an atom at x
Added(r) ==
  IF pc[r] = "setup" THEN <<>>
  ELSE SubSeq(peratom[r], nlocal_previous[r] + 1, Len(peratom[r]))
AddedAt(r, x) == {n \in 1..Len(Added(r)) : Added(r)[n].x = x}
Creators(x) == {r \in Ranks : AddedAt(r, x) # {}}
AddedPositions == UNION {{Added(r)[n].x : n \in 1..Len(Added(r))} : r \in Ranks}
RECURSIVE AddedUpTo(_)
AddedUpTo(r) == IF r = 0 THEN 0 ELSE Len(Added(r)) + AddedUpTo(r - 1)
AddedTotal == AddedUpTo(comm.nprocs)

NoFilters == cmd.style = "BOX" /\ ~cmd.varflag /\ cmd.subsetflag = "NONE"

\* C1 (as amended): in a lattice run without a subset, no site that passes
\* the filters is accepted by the ownership test of two ranks, a site is
\* accepted by one rank exactly when it lies in the insertion box, and the
\* rank that accepts it is the one rank that creates it, once.
C1_OneOwnerInInsertionBox ==
  (Completed /\ cmd.subsetflag = "NONE") =>
    \A c \in NearSites :
      LET x == SiteX(c) IN
      PassesFilters(x) =>
        /\ Cardinality(Owners(x)) = (IF InsertionBox(x) THEN 1 ELSE 0)
        /\ Creators(x) = Owners(x)
        /\ \A r \in Owners(x) : Cardinality(AddedAt(r, x)) = 1

\* C1 as stated: no site is accepted by two ranks and no site lying in the
\* global box is accepted by none.
C1_OneOwnerInGlobalBox ==
  (Completed /\ cmd.subsetflag = "NONE") =>
    \A c \in NearSites :
      LET x == SiteX(c) IN
      PassesFilters(x) =>
        /\ Cardinality(Owners(x)) <= 1
        /\ GlobalBox(x) => Cardinality(Owners(x)) = 1

\* two ranks, a site on the plane between them that the upper rank created,
\* and a site on a periodic axis on either side of the insertion box's
\* upper face
C1_SeamSiteCreatedOnce ==
  /\ Completed /\ cmd.subsetflag = "NONE" /\ comm.nprocs >= 2
  /\ \E c \in NearSites, r \in Ranks, d \in Axes :
       /\ r > 1 /\ comm.procgrid[d] >= 2 /\ domain.periodicity[d]
       /\ SiteX(c)[d] = sublo[r][d]
       /\ Creators(SiteX(c)) = {r}
  /\ \E c \in NearSites : GlobalBox(SiteX(c)) /\ ~InsertionBox(SiteX(c))

\* sites of a cube of L cells per edge with the origin at a corner
CubeEdge == (domain.boxhi[1] - domain.boxlo[1]) \div UnitLen
IsCube ==
  /\ domain.boxlo = <<0, 0, 0>>
  /\ \A d \in Axes : domain.boxhi[d] = CubeEdge * UnitLen
  /\ lattice.nbasis = 1
  /\ \A d \in Axes : domain.periodicity[d]
SplitInHalves ==
  /\ comm.nprocs = 2
  /\ \E d \in Axes : 2 * domain.subhi[1][d] = domain.boxhi[d]

Precedes(c, d) ==
  \/ c.k < d.k
  \/ c.k = d.k /\ c.j < d.j
  \/ c.k = d.k /\ c.j = d.j /\ c.i < d.i
  \/ c.k = d.k /\ c.j = d.j /\ c.i = d.i /\ c.m < d.m

\* the candidates of the loop bounds b
LoopCells(b) ==
  {[i |-> i, j |-> j, k |-> k, m |-> m] :
     i \in b.ilo..b.ihi, j \in b.jlo..b.jhi, k \in b.klo..b.khi,
     m \in 1..lattice.nbasis}

\* C3: on a rank, every pass of loop_lattice starts its counter at zero,
\* counts exactly the candidates that pass the filters and the ownership
\* test, once each and in the order (axis 3, axis 2, axis 1, basis), so any
\* two passes give every accepted site the same sequence number and end with
\* the same total.
C3_PassesAgree ==
  \A r \in Ranks :
    passes[r] # <<>> =>
      \A accepted \in {{c \in LoopCells(ibox[r]) :
                          /\ PassesFilters(SiteX(c))
                          /\ InSubbox(SiteX(c), sublo[r], subhi[r])}} :
        \A p \in 1..Len(passes[r]) :
          LET ps == passes[r][p] IN
          /\ \A n \in 1..Len(ps.sites) : ps.sites[n].seq = n - 1
          /\ ps.nlatt = Len(ps.sites)
          /\ \A n \in 1..(Len(ps.sites) - 1) :
               Precedes(ps.sites[n].site, ps.sites[n + 1].site)
          /\ {ps.sites[n].site : n \in 1..Len(ps.sites)} = accepted
          /\ \A q \in 1..Len(passes[r]) :
               passes[r][q].sites = ps.sites /\ passes[r][q].nlatt = ps.nlatt

\* a rank that ran COUNT and then INSERT_SELECTED over at least two sites,
\* the first of them not selected and a later one selected
C3_CountThenSelected ==
  \E r \in Ranks :
    /\ Len(passes[r]) = 2
    /\ passes[r][1].action = "COUNT" /\ passes[r][2].action = "INSERT_SELECTED"
    /\ Len(passes[r][2].sites) >= 2
    /\ flag[r][1] = 0
    /\ \E n \in 2..Len(flag[r]) : flag[r][n] = 1

\* the positions of the sites of a pass whose flag is set, in pass order
RECURSIVE FlaggedFrom(_, _, _)
FlaggedFrom(sites, fl, n) ==
  IF n > Len(sites) THEN <<>>
  ELSE (IF fl[n] = 1 THEN <<SiteX(sites[n].site)>> ELSE <<>>)
       \o FlaggedFrom(sites, fl, n + 1)
Positions(atoms) == [n \in 1..Len(atoms) |-> atoms[n].x]
FlagsSet(fl) == Cardinality({n \in 1..Len(fl) : fl[n] = 1})

\* C4: in a lattice run with a subset, each rank creates an atom at exactly
\* its owned sites whose flag is set, in site order; the atoms created number
\* the flags set, the subset size over all ranks; the site counter after
\* INSERT_SELECTED is the COUNT total.
C4_SelectedSitesOnly ==
  (Completed /\ cmd.subsetflag # "NONE") =>
    /\ \A r \in Ranks :
         /\ Len(passes[r]) = 2
         /\ passes[r][2].action = "INSERT_SELECTED"
         /\ Len(flag[r]) = passes[r][1].nlatt
         /\ Positions(Added(r)) = FlaggedFrom(passes[r][2].sites, flag[r], 1)
         /\ Len(Added(r)) = FlagsSet(flag[r])
         /\ nlatt[r] = passes[r][1].nlatt
         /\ passes[r][2].nlatt = passes[r][1].nlatt
    /\ \A r \in Ranks : AddedTotal = nsubset[r]

\* a subset of two or more sites over two ranks, one of which owns a selected
\* and an unselected site
C4_SubsetOverTwoRanks ==
  /\ Completed /\ cmd.subsetflag = "SUBSET" /\ comm.nprocs = 2
  /\ AddedTotal >= 2
  /\ \E r \in Ranks :
       /\ \E n \in 1..Len(flag[r]) : flag[r][n] = 1
       /\ \E n \in 1..Len(flag[r]) : flag[r][n] = 0

-----------------------------------------------------------------------------
(* Inputs of the single and random styles: a box of 8 x 8 x 8 length       *)
(* units, cut along x at 2 and 5; the candidates have x = 2 or x = 5       *)

MaxRandom == 2       \* largest nrandom
MaxTry == 2          \* largest maxtry

\* an atom that exists before the command, near the upper x face
OldAtom == [NewAtom(1, <<7, 4, 4>>) EXCEPT !.tag = 1,
                                           !.molecule = IF atom.molecule_flag THEN 2 ELSE 0]

\* a two-atom template along x, its atoms bonded to each other, with one
\* three-index (angle) entry on the second atom, in one or two named
\* sub-molecules
Template(flagged, nmol) ==
  [natoms |-> 2, dx |-> <<<<-1, 0, 0>>, <<1, 0, 0>>>>, type |-> <<0, 0>>,
   bond_atom |-> <<<<2>>, <<>>>>, special |-> <<<<2>>, <<1>>>>,
   angle_atom |-> <<<<>>, <<<<1, 2, 1>>>>>>,
   molecule |-> IF nmol = 1 THEN <<1, 1>> ELSE <<1, 2>>, nmolecules |-> nmol,
   moleculeflag |-> flagged, bondflag |-> TRUE, angleflag |-> TRUE,
   specialflag |-> TRUE,
   molradius |-> 1]
Templates == {Template(FALSE, 1), Template(TRUE, 1), Template(TRUE, 2)}
MolecularStyle ==
  [tag_enable |-> TRUE, molecule_flag |-> TRUE, molecular |-> "MOLECULAR",
   bigbits |-> 64, nbulk |-> <<>>, overflow_to |-> -MAXSMALLINT - 1,
   overflow_traps |-> FALSE]

\* regions of the random style: the closed lower part of the box, which
\* declares no bounding box, and a block beyond the box
RandomRegions ==
  {[id |-> "lower", lo |-> <<0, 0, 0>>, hi |-> <<3, 8, 8>>, bboxflag |-> FALSE],
   [id |-> "beyond", lo |-> <<9, 0, 0>>, hi |-> <<10, 8, 8>>, bboxflag |-> TRUE]}

\* the command, the box and its ranks; the old atom, if any, is on the last
\* rank, which owns it
BoxInputs(c, reg, tmpl, style, np, cuts, per, old) ==
  LET dec == Decompose(<<0, 0, 0>>, <<8, 8, 8>>, <<per, per, per>>, 1, cuts,
                       "LAYOUT_UNIFORM")
  IN /\ cmd = c
     /\ region = reg
     /\ onemol = tmpl
     /\ atom = style
     /\ domain = dec.dom
     /\ comm = dec.com
     /\ lattice = CHOOSE l \in Lattices : l.nbasis = 1
     /\ InitRanks([r \in 1..np |-> IF old /\ r = np THEN <<OldAtom>> ELSE <<>>])

\* "create_atoms 1 random nrandom seed region maxtry n overlap ov"
RandomCmd(nrandom, maxtry, ov) ==
  [DefaultCmd EXCEPT !.style = "RANDOM", !.nrandom = nrandom, !.maxtry = maxtry,
                     !.overlapflag = ov > 0, !.overlap = ov]

\* random atoms with and without overlap avoidance; the box is periodic, or
\* not where the minimum image makes a difference
InitRandomAtoms ==
  \E np \in 1..MaxProcs, nrandom \in 0..MaxRandom, maxtry \in 1..MaxTry,
     ov \in {0, 3, 4, 9}, old \in BOOLEAN, per \in BOOLEAN :
    /\ per \/ (ov = 4 /\ old)
    /\ \E cuts \in CutLists({2, 5}, np - 1) :
         BoxInputs(RandomCmd(nrandom, maxtry, ov), NoRegion, NoMolecule, AtomicStyle,
                   np, cuts, per, old)

\* random atoms with a region, with overlap avoidance where the region
\* meets the box, or with a variable test
InitRandomFiltered ==
  \E np \in 1..MaxProcs, nrandom \in 0..MaxRandom, maxtry \in 1..MaxTry,
     f \in {"lower", "beyond", "var"} :
    \E cuts \in CutLists({2, 5}, np - 1) :
      BoxInputs([RandomCmd(nrandom, maxtry, IF f = "lower" THEN 3 ELSE 0) EXCEPT
                   !.varflag = (f = "var"), !.vexpr = "step", !.vcut = 3],
                IF f = "var" THEN NoRegion ELSE CHOOSE g \in RandomRegions : g.id = f,
                NoMolecule, AtomicStyle, np, cuts, TRUE, FALSE)

\* random molecules, one try each, with the orientation given by the user
InitRandomMolecules ==
  \E np \in 1..MaxProcs, nrandom \in 1..MaxRandom, ov \in 0..3, old \in BOOLEAN,
     ts \in ({<<t, MolecularStyle>> : t \in Templates}
             \cup {<<Template(FALSE, 1), AtomicStyle>>}) :
    \E cuts \in CutLists({2, 5}, np - 1) :
      BoxInputs([RandomCmd(nrandom, 1, ov) EXCEPT !.mode = "MOLECULE",
                                                  !.quat_user = TRUE],
                NoRegion, ts[1], ts[2], np, cuts, TRUE, old)

\* one atom, or one molecule in a random orientation, at a point in the box,
\* on its faces or beyond them
InitSingle ==
  \E np \in 1..MaxProcs, x \in {-1, 0, 2, 5, 8, 9}, remapflag \in BOOLEAN,
     per \in BOOLEAN, mol \in BOOLEAN :
    \E cuts \in CutLists({2, 5}, np - 1) :
      BoxInputs([DefaultCmd EXCEPT !.style = "SINGLE", !.xone = <<x, 4, 4>>,
                                   !.remapflag = remapflag,
                                   !.mode = IF mol THEN "MOLECULE" ELSE "ATOM"],
                NoRegion,
                IF mol THEN Template(TRUE, 1) ELSE NoMolecule,
                IF mol THEN MolecularStyle ELSE AtomicStyle,
                np, cuts, per, FALSE)

\* one atom at the middle of the box, where the ranks already hold many
\* atoms: ids are off (atom_modify id no), bigint is 32 or 64 bits wide
BulkCounts == {0, 500000000, 1073741824, MAXSMALLINT - 1}
InitCounts ==
  \E np \in 1..MaxProcs, bits \in {32, 64}, nb \in [1..MaxProcs -> BulkCounts] :
    /\ \A r \in 1..MaxProcs : r > np => nb[r] = 0
    /\ bits = 64 => \A r \in 1..np : nb[r] <= 500000000
    /\ \E cuts \in CutLists({2, 5}, np - 1) :
         BoxInputs([DefaultCmd EXCEPT !.style = "SINGLE", !.xone = <<4, 4, 4>>],
                   NoRegion, NoMolecule,
                   [AtomicStyle EXCEPT !.tag_enable = FALSE, !.bigbits = bits,
                                       !.nbulk = [r \in 1..np |-> nb[r]]],
                   np, cuts, TRUE, FALSE)


RandomNext ==
  \E r \in AllRanks :
    \/ Setup(r)
    \/ AddSingle(r)
    \/ RandomStart(r)
    \/ RandomTry(r)
    \/ RandomReduce(r)
    \/ RandomEnd(r)
    \/ SetNatoms(r)
    \/ TagExtend(r)
    \/ MolSum(r)
    \/ MolMax(r)
    \/ MolScan(r)

\* Molecule runs of every style: the random and single placements above, and
\* lattice runs of a periodic box of 2 x 1 x 1 cells with one site per cell,
\* with and without a subset
InitLatticeMolecules ==
  \E np \in 1..MaxProcs, tmpl \in Templates, quat \in BOOLEAN,
     sub \in {s \in Subsets : s.subsetflag # "RATIO" /\ s.nsubset <= 2} :
    \E cuts \in CutLists({h * Half : h \in 1..3}, np - 1) :
      LET dec == Decompose(<<0, 0, 0>>, <<2 * UnitLen, UnitLen, UnitLen>>,
                           <<TRUE, TRUE, TRUE>>, 1, cuts, "LAYOUT_UNIFORM")
      IN /\ domain = dec.dom
         /\ comm = dec.com
         /\ lattice = CHOOSE l \in Lattices : l.nbasis = 1
         /\ cmd = [DefaultCmd EXCEPT !.mode = "MOLECULE", !.quat_user = quat,
                                     !.subsetflag = sub.subsetflag,
                                     !.nsubset = sub.nsubset]
         /\ region = NoRegion
         /\ onemol = tmpl
         /\ atom = MolecularStyle
         /\ InitRanks([r \in 1..np |-> <<>>])

InitMolecule ==
  /\ InitLatticeMolecules \/ InitRandomMolecules \/ InitSingle
  /\ cmd.mode = "MOLECULE"
MoleculeNext == RandomNext \/ LatticeNext
SpecMolecule == InitMolecule /\ [][MoleculeNext]_vars

InitRandom ==
  InitRandomAtoms \/ InitRandomFiltered \/ InitRandomMolecules \/ InitSingle \/ InitCounts
SpecRandom == InitRandom /\ [][RandomNext]_vars

-----------------------------------------------------------------------------
(* Single and random styles: overlap, lock-step, ownership, retry budget   *)

\* atoms per created entity
EntitySize == IF cmd.mode = "ATOM" THEN 1 ELSE onemol.natoms

\* the created atoms as (rank, index in Added) pairs, and the molecule of one
CreatedAtoms == UNION {{<<r, n>> : n \in 1..Len(Added(r))} : r \in Ranks}
EntityOf(a) == <<a[1], (a[2] - 1) \div EntitySize>>
PositionOf(a) == Added(a[1])[a[2]].x

OverlapRun == cmd.style = "RANDOM" /\ cmd.overlapflag

\* C5 (as amended): in a random run with overlap avoidance, any two created
\* atoms that are not members of the same stamped molecule are at a
\* minimum-image distance of at least the overlap threshold.
C5_ApartUnlessSameMolecule ==
  OverlapRun =>
    \A a \in CreatedAtoms, b \in CreatedAtoms :
      (a # b /\ EntityOf(a) # EntityOf(b)) =>
        distsq(PositionOf(a), PositionOf(b)) >= cmd.overlap * cmd.overlap

\* C5 as stated: every two created atoms, members of one molecule included,
\* are at least the overlap threshold apart.
C5_AllPairsApart ==
  OverlapRun =>
    \A a \in CreatedAtoms, b \in CreatedAtoms :
      a # b => distsq(PositionOf(a), PositionOf(b)) >= cmd.overlap * cmd.overlap

\* two molecules on two ranks with atoms exactly the threshold apart
C5_TwoMoleculesAtThreshold ==
  /\ Completed /\ OverlapRun /\ cmd.mode = "MOLECULE"
  /\ \E a \in CreatedAtoms, b \in CreatedAtoms :
       /\ a[1] # b[1]
       /\ distsq(PositionOf(a), PositionOf(b)) = cmd.overlap * cmd.overlap

\* C6: in a random run the ranks make the same tries: same draws consumed,
\* same candidate, same decision, and with overlap avoidance the candidate
\* is rejected exactly when some rank's flag is set; the ranks enter the same
\* sequence of reductions and end with the same count of accepted positions.
C6_LockStep ==
  cmd.style = "RANDOM" =>
    \A r \in Ranks, s \in Ranks :
      /\ \A n \in 1..Min(Len(trylog[r]), Len(trylog[s])) : trylog[r][n] = trylog[s][n]
      /\ \A n \in 1..Min(Len(sent[r]), Len(sent[s])) : sent[r][n].kind = sent[s][n].kind
      /\ (pc[r] = "ran_reduce" /\ pc[s] = "ran_reduce" /\ Len(sent[r]) = Len(sent[s])) =>
           /\ rnd[r].xone = rnd[s].xone
           /\ rnd[r].ndraw = rnd[s].ndraw
      /\ \A n \in 1..Len(trylog[r]) :
           LET e == trylog[r][n] IN
           e.round > 0 =>
             (e.outcome = "overlap" <=>
                \E q \in Ranks : /\ sent[q][e.round].kind = "overlap"
                                 /\ sent[q][e.round].val = 1)
      /\ (pc[r] = "done" /\ pc[s] = "done") =>
           /\ rnd[r].ninsert = rnd[s].ninsert
           /\ trylog[r] = trylog[s]

\* two ranks that both made a filtered try, a try rejected for overlap on
\* one rank's flag only, and an accepted try
C6_MixedTries ==
  /\ Completed /\ cmd.style = "RANDOM" /\ comm.nprocs >= 2
  /\ \E n \in 1..Len(trylog[1]) : trylog[1][n].outcome = "filtered"
  /\ \E n \in 1..Len(trylog[1]) : trylog[1][n].outcome = "accepted"
  /\ \E n \in 1..Len(trylog[1]) :
       /\ trylog[1][n].outcome = "overlap"
       /\ \E q \in Ranks : sent[q][trylog[1][n].round].val = 0

\* the positions a rank accepted that lie in its sub-box, in order
RECURSIVE AcceptedIn(_, _)
AcceptedIn(r, n) ==
  IF n > Len(trylog[r]) THEN <<>>
  ELSE (IF /\ trylog[r][n].outcome = "accepted"
           /\ InSubbox(trylog[r][n].xone, domain.sublo[r], domain.subhi[r])
        THEN <<trylog[r][n].xone>> ELSE <<>>) \o AcceptedIn(r, n + 1)
DomainOwners(x) == {r \in Ranks : InSubbox(x, domain.sublo[r], domain.subhi[r])}

\* C7: the position of a single run, when it lies in the global box, and
\* every accepted position of a random run, is materialized by the one rank
\* whose half-open sub-box contains it and by no other; the entities created
\* over all ranks number the accepted attempts.
C7_MaterializedByOwner ==
  Completed =>
    /\ cmd.style = "SINGLE" =>
         \A r \in Ranks :
           LET x == rnd[r].xone IN
           GlobalBox(x) =>
             /\ Cardinality(DomainOwners(x)) = 1
             /\ Len(Added(r)) = (IF r \in DomainOwners(x) THEN EntitySize ELSE 0)
             /\ (cmd.mode = "ATOM" /\ r \in DomainOwners(x)) => Added(r)[1].x = x
    /\ cmd.style = "RANDOM" =>
         /\ \A r \in Ranks :
              /\ \A n \in 1..Len(trylog[r]) :
                   trylog[r][n].outcome = "accepted" =>
                     Cardinality(DomainOwners(trylog[r][n].xone)) = 1
              /\ Len(Added(r)) = EntitySize * Len(AcceptedIn(r, 1))
              /\ cmd.mode = "ATOM" => Positions(Added(r)) = AcceptedIn(r, 1)
         /\ \A r \in Ranks : AddedTotal = EntitySize * rnd[r].ninsert

\* two accepted positions, one on the plane between two ranks
C7_AcceptedOnTheSeam ==
  /\ Completed /\ cmd.style = "RANDOM" /\ comm.nprocs = 2
  /\ rnd[1].ninsert = 2
  /\ Len(Added(1)) = EntitySize
  /\ \E n \in 1..Len(trylog[2]) :
       /\ trylog[2][n].outcome = "accepted"
       /\ trylog[2][n].xone[1] = domain.sublo[2][1]

\* the attempts of a rank that ended with an accepted try
Succeeded(r) ==
  {k \in 0..(cmd.nrandom - 1) :
     \E n \in 1..Len(trylog[r]) : trylog[r][n].i = k /\ trylog[r][n].outcome = "accepted"}
Warned(r) == \E n \in 1..Len(events[r]) : events[r][n] = "warning: only inserted"

\* C8: in a random run an attempt makes at most maxtry tries; an attempt
\* whose tries all fail creates nothing and the later attempts still run;
\* rank 0 warns at the end exactly when fewer than nrandom attempts
\* succeeded; with maxtry 1 and an overlap distance that covers the box at
\* most one entity is created.
C8_RetryBudgetAndShortfall ==
  cmd.style = "RANDOM" =>
    \A r \in Ranks :
      /\ \A n \in 1..Len(trylog[r]) : trylog[r][n].ntry <= cmd.maxtry
      /\ \A k \in 0..(cmd.nrandom - 1) :
           Cardinality({n \in 1..Len(trylog[r]) : trylog[r][n].i = k}) <= cmd.maxtry
      /\ pc[r] # "error" \/ region.id = "beyond"
      /\ Completed =>
           /\ rnd[r].i = cmd.nrandom
           /\ rnd[r].ninsert = Cardinality(Succeeded(r))
           /\ AddedTotal = EntitySize * Cardinality(Succeeded(r))
           /\ Warned(r) <=> (r = 1 /\ Cardinality(Succeeded(r)) < cmd.nrandom)
           /\ (cmd.maxtry = 1 /\ cmd.overlap = 9) => AddedTotal <= 1

\* two attempts with one try each, the second in conflict with the first:
\* one atom, one failure, the warning
C8_OneOfTwoPlaced ==
  /\ Completed /\ cmd.style = "RANDOM" /\ cmd.maxtry = 1 /\ cmd.overlap = 9
  /\ cmd.nrandom = 2 /\ AddedTotal = 1 /\ rnd[1].ninsert = 1
  /\ Succeeded(1) = {0}
  /\ Warned(1)

\* C9: a random run with nrandom = 0 creates nothing on any rank and issues
\* no warning.
C9_NothingRequested ==
  (cmd.style = "RANDOM" /\ cmd.nrandom = 0) =>
    \A r \in Ranks :
      /\ Added(r) = <<>>
      /\ trylog[r] = <<>>
      /\ ~Warned(r)

\* two ranks finished a random run with nrandom = 0
C9_ZeroOnTwoRanks ==
  /\ Completed /\ cmd.style = "RANDOM" /\ cmd.nrandom = 0 /\ comm.nprocs = 2
  /\ \A r \in Ranks : \E n \in 1..Len(events[r]) : events[r][n] = "inserted"

\* the template-relative sub-molecule of a created atom
SubMoleculeOf(a) ==
  IF onemol.moleculeflag THEN onemol.molecule[((a[2] - 1) % onemol.natoms) + 1] ELSE 1

\* C10: after stitching, two created atoms have the same molecule id only if
\* they are in the same created molecule and the same sub-molecule of the
\* template.
C10_MoleculeIdsDistinct ==
  (Completed /\ cmd.mode = "MOLECULE" /\ atom.molecule_flag) =>
    \A a \in CreatedAtoms, b \in CreatedAtoms :
      Added(a[1])[a[2]].molecule = Added(b[1])[b[2]].molecule =>
        (EntityOf(a) = EntityOf(b) /\ SubMoleculeOf(a) = SubMoleculeOf(b))

-----------------------------------------------------------------------------
(* Molecule mode: identifiers and references after stitching               *)

\* the largest molecule id held by any atom before the command ran
MaxPreviousMolecule ==
  SetMax({0} \cup UNION {{peratom[r][n].molecule : n \in 1..nlocal_previous[r]} :
                           r \in Ranks})

\* C11: after stitching, every molecule id given to a created atom is larger
\* than the largest molecule id any rank held before the command.
C11_IdsAbovePrevious ==
  (Completed /\ cmd.mode = "MOLECULE" /\ atom.molecule_flag) =>
    \A a \in CreatedAtoms : Added(a[1])[a[2]].molecule > MaxPreviousMolecule

\* two ranks each stitched a molecule next to an atom of molecule 2
C11_BothRanksAboveOld ==
  /\ Completed /\ cmd.mode = "MOLECULE" /\ atom.molecule_flag
  /\ comm.nprocs = 2 /\ MaxPreviousMolecule = 2
  /\ \A r \in Ranks : Len(Added(r)) > 0

\* the tag of the first member of the molecule a created atom belongs to,
\* and the atom's template index (from 1)
FirstTagOf(a) == Added(a[1])[EntityOf(a)[2] * onemol.natoms + 1].tag
MemberOf(a) == ((a[2] - 1) % onemol.natoms) + 1
MemberTags(a) ==
  {Added(a[1])[EntityOf(a)[2] * onemol.natoms + t].tag : t \in 1..onemol.natoms}

-----------------------------------------------------------------------------
(* The global atom count                                                   *)

\* the rank is past the reduction of the atom count
Counted(r) == pc[r] \in {"tags", "mol_sum", "mol_max", "mol_scan", "done"}
TooManyRaised(r) ==
  \E n \in 1..Len(events[r]) : events[r][n] = "error: too many total atoms"
\* what rank k gave to the reduction of the atom count, and the reduction
CountSent(k) ==
  LET n == CHOOSE i \in 1..Len(sent[k]) : sent[k][i].kind = "natoms"
  IN sent[k][n].val
RECURSIVE ReducedCount(_)
ReducedCount(k) == IF k = 0 THEN 0 ELSE AddBig(ReducedCount(k - 1), CountSent(k))
\* the local counts fit the counter when added up in rank order
RECURSIVE ExactSum(_)
ExactSum(k) == IF k = 0 THEN 0 ELSE ExactSum(k - 1) + nblocal(k, peratom[k])
RECURSIVE SumFits(_)
SumFits(k) ==
  k = 0 \/ (SumFits(k - 1) /\ nblocal(k, peratom[k]) <= MAXSMALLINT - 1 - ExactSum(k - 1))

\* C13: once a rank has the reduced count, its atom->natoms is the sum over
\* the ranks of their local counts, in bigint arithmetic; it is the exact sum
\* whenever that is below the counter's maximum, and the rank goes on; when
\* the reduced sum is negative or not below the maximum, every rank that has
\* it fails with "Too many total atoms" and no rank goes on.
C13_GlobalCountOrError ==
  (\A r \in Ranks : pc[r] \in {"natoms", "error", "tags", "mol_sum", "mol_max",
                               "mol_scan", "done"}) =>
    \A r \in Ranks :
      /\ Counted(r) =>
           /\ natoms[r] = ReducedCount(comm.nprocs)
           /\ \A s \in Ranks : CountSent(s) = nblocal(s, peratom[s])
           /\ natoms[r] >= 0
           /\ atom.bigbits = 32 => natoms[r] < MAXSMALLINT
           /\ \A s \in Ranks : ~TooManyRaised(s)
      /\ (Counted(r) /\ SumFits(comm.nprocs)) => natoms[r] = ExactSum(comm.nprocs)
      /\ TooManyRaised(r) =>
           /\ pc[r] = "error"
           /\ natoms[r] = ReducedCount(comm.nprocs)
           /\ natoms[r] < 0 \/ (atom.bigbits = 32 /\ natoms[r] >= MAXSMALLINT)
           /\ \A s \in Ranks : ~Counted(s)

\* two ranks of 2^30 atoms each, one of which adds an atom: the 32-bit sum
\* is negative and both ranks have failed
C13_WrappedOnTwoRanks ==
  /\ comm.nprocs = 2 /\ atom.bigbits = 32
  /\ \A r \in Ranks : TooManyRaised(r) /\ natoms[r] < 0
  /\ AddedTotal = 1

-----------------------------------------------------------------------------
(* The order of insertion, stitching and migration                         *)

\* where an event is in a rank's history (0 if it is not there), how often
Where(r, e) ==
  IF \E n \in 1..Len(events[r]) : events[r][n] = e
  THEN CHOOSE n \in 1..Len(events[r]) : events[r][n] = e
  ELSE 0
Times(r, e) == Cardinality({n \in 1..Len(events[r]) : events[r][n] = e})

\* C14: a rank stitches at most once, and exactly once in a molecule-mode
\* command that it completes; when a rank has stitched, every rank has
\* finished inserting; a rank asks for the migration once, after it has
\* stitched; in atom mode no rank stitches or migrates.
C14_StitchOnceAfterAllInserted ==
  \A r \in Ranks :
    /\ Times(r, "stitched") <= 1 /\ Times(r, "migrate") <= 1
    /\ Where(r, "stitched") > 0 =>
         /\ cmd.mode = "MOLECULE"
         /\ \A s \in Ranks :
              /\ Where(s, "inserted") > 0
              /\ pc[s] \notin {"setup", "add", "ran_try", "ran_reduce", "lat_overflow",
                               "lat_subset"}
    /\ Where(r, "migrate") > 0 =>
         /\ Where(r, "stitched") > 0
         /\ Where(r, "stitched") < Where(r, "migrate")
    /\ (pc[r] = "done" /\ cmd.mode = "MOLECULE") =>
         Times(r, "stitched") = 1 /\ Times(r, "migrate") = 1
    /\ (pc[r] # "done" /\ Where(r, "stitched") = 0) =>
         \A n \in 1..Len(Added(r)) : Added(r)[n].molecule = 0

\* one rank has stitched and migrated its molecule while the other, which
\* has inserted its own, has not stitched yet
C14_OneRankAhead ==
  /\ cmd.mode = "MOLECULE" /\ comm.nprocs = 2
  /\ \A r \in Ranks : Len(Added(r)) > 0
  /\ \E r \in Ranks, s \in Ranks :
       /\ Where(r, "migrate") > 0
       /\ Where(s, "inserted") > 0 /\ Where(s, "stitched") = 0

-----------------------------------------------------------------------------
(* Lattice styles: the overflow of the site counter                        *)

\* the sites of the loop bounds that rank r owns and accepts; with its bulk
\* sites they are more than a 32-bit int can count
OwnedDrawn(r) ==
  {c \in LoopCells(LoopBounds(r)) :
     PassesFilters(SiteX(c)) /\ InSubbox(SiteX(c), SetSublo(r), SetSubhi(r))}
Exceeds(r) == Bulk(r) > MAXSMALLINT - Cardinality(OwnedDrawn(r))
OverflowRaised(r) ==
  \E n \in 1..Len(events[r]) : events[r][n] = "error: lattice size overflow"

\* C15: the COUNT pass of a rank visits every site the rank owns and sets
\* the rank's overflow flag exactly when they number more than MAXSMALLINT;
\* when some rank's count is over, every rank fails with the overflow error
\* after the reduction of the flags, having run COUNT only and created
\* nothing; when no rank's count is over, no rank raises that error.
\* (Violated where the build traps the increment of nlatt at MAXSMALLINT.)
C15_OverflowRaisedAfterCount ==
  \A r \in Ranks :
    /\ pc[r] \notin {"setup", "add"} =>
         /\ Len(passes[r]) >= 1
         /\ passes[r][1].action = "COUNT"
         /\ {passes[r][1].sites[n].site : n \in 1..Len(passes[r][1].sites)}
              = OwnedDrawn(r)
         /\ nlatt_overflow[r] = (IF Exceeds(r) THEN 1 ELSE 0)
    /\ (\E s \in Ranks : Exceeds(s)) =>
         /\ Added(r) = <<>>
         /\ \A p \in 1..Len(passes[r]) : passes[r][p].action = "COUNT"
         /\ pc[r] \in {"setup", "add", "lat_overflow", "error"}
         /\ pc[r] = "error" <=> OverflowRaised(r)
         /\ pc[r] = "error" => \A s \in Ranks : pc[s] \notin {"setup", "add"}
    /\ (\A s \in Ranks : ~Exceeds(s)) => ~OverflowRaised(r)

\* rank 1 counted 2^31 sites and rank 2 one site; both have failed
C15_OneRankOver ==
  /\ comm.nprocs = 2 /\ Exceeds(1) /\ ~Exceeds(2)
  /\ ~atom.overflow_traps
  /\ nlatt_overflow = <<1, 0>>
  /\ \A r \in Ranks : OverflowRaised(r) /\ pc[r] = "error"
  /\ Len(passes[2][1].sites) = 1

-----------------------------------------------------------------------------
(* Lattice styles: a subset larger than the lattice                        *)

RECURSIVE OwnedUpTo(_)
OwnedUpTo(r) == IF r = 0 THEN 0 ELSE Cardinality(OwnedDrawn(r)) + OwnedUpTo(r - 1)
\* the lattice sites of the run, over all ranks
GlobalSites == OwnedUpTo(comm.nprocs)
SubsetRaised(r) ==
  \E n \in 1..Len(events[r]) :
    events[r][n] = "error: subset size > # of lattice sites"

\* C16: a run that asks for a subset of more sites than the lattice has over
\* all ranks fails on every rank with the subset-size error: a rank raises it
\* after its COUNT pass and the reduction of the totals, no flag has been
\* computed and no rank has created anything; a subset within the lattice
\* never raises that error.
C16_SubsetLargerThanLattice ==
  \A r \in Ranks :
    IF cmd.subsetflag = "SUBSET" /\ cmd.nsubset > GlobalSites THEN
      /\ Added(r) = <<>>
      /\ flag[r] = <<>> /\ ~flagsel
      /\ \A p \in 1..Len(passes[r]) : passes[r][p].action = "COUNT"
      /\ pc[r] \in {"setup", "add", "lat_overflow", "lat_subset", "error"}
      /\ pc[r] = "error" <=> SubsetRaised(r)
      /\ pc[r] = "error" =>
           \A s \in Ranks : Len(passes[s]) = 1 /\ Len(sent[s]) >= 2
    ELSE ~SubsetRaised(r)

\* three sites asked for of a lattice of two, one on each of two ranks
C16_ThreeOfTwoSites ==
  /\ comm.nprocs = 2
  /\ cmd.nsubset = 3 /\ GlobalSites = 2
  /\ \A r \in Ranks :
       /\ SubsetRaised(r) /\ pc[r] = "error"
       /\ passes[r][1].nlatt = 1

-----------------------------------------------------------------------------
(* Lattice styles: the index box narrowed by the region                    *)

\* the index box of rank r from its whole sub-domain, lines 859-892 without
\* the narrowing of 842-857
WideBounds(r) ==
  LET lb == LatticeBbox([lo |-> domain.sublo[r], hi |-> domain.subhi[r]])
  IN [ilo |-> LoopLo(lb.min[1]), ihi |-> LoopHi(lb.max[1]),
      jlo |-> LoopLo(lb.min[2]), jhi |-> LoopHi(lb.max[2]),
      klo |-> LoopLo(lb.min[3]), khi |-> LoopHi(lb.max[3])]
\* the sites rank r acts on, in loop order, when it walks that box
WideSites(r) ==
  LET st == loop_lattice("COUNT", r, WideBounds(r), 0, <<>>, Identity)
  IN [n \in 1..Len(st.sites) |-> st.sites[n].site]
SitesOf(ps) == [n \in 1..Len(ps.sites) |-> ps.sites[n].site]
Narrowed(r) ==
  cmd.style = "REGION" /\ region.bboxflag /\ LoopBounds(r) # WideBounds(r)

\* C17: in a region run whose region has a bounding box, every pass of a
\* rank over the narrowed index box acts on the same sites, in the same
\* order, as a pass over the index box of the whole sub-domain would; without
\* a subset the rank creates exactly these sites, in that order.
C17_NarrowingKeepsSites ==
  \A r \in Ranks :
    (cmd.style = "REGION" /\ region.bboxflag /\ pc[r] \notin {"setup", "add"}) =>
      /\ ibox[r] = LoopBounds(r)
      /\ \A p \in 1..Len(passes[r]) : SitesOf(passes[r][p]) = WideSites(r)
      /\ (cmd.subsetflag = "NONE" /\ pc[r] \notin {"lat_overflow", "error"}) =>
           [n \in 1..Len(Added(r)) |-> Added(r)[n].x]
             = [n \in 1..Len(WideSites(r)) |-> SiteX(WideSites(r)[n])]

\* a rank whose index box the region made smaller has created a site
C17_NarrowedRankCreated ==
  \E r \in Ranks :
    /\ Narrowed(r)
    /\ pc[r] = "done"
    /\ Len(passes[r]) = 2
    /\ Len(Added(r)) >= 1

-----------------------------------------------------------------------------
(* Molecule mode: what a rank holds after its placements                   *)

\* atom a is a stamp of template atom m: its type, and as many bond, angle
\* and special entries as the template atom has
StampOf(a, m) ==
  /\ a.type = cmd.ntype + onemol.type[m]
  /\ Len(a.bond_atom) = Len(onemol.bond_atom[m])
  /\ Len(a.angle_atom) = Len(onemol.angle_atom[m])
  /\ Len(a.special) = Len(onemol.special[m])
\* the atoms from index base + 1 on are one molecule laid down around a centre
WholeAt(as, base) ==
  \E rot \in {Identity, QuarterZ} :
    \A m \in 1..onemol.natoms :
      \A d \in Axes :
        as[base + m].x[d] - as[base + 1].x[d]
          = Rotate(rot, onemol.dx[m])[d] - Rotate(rot, onemol.dx[1])[d]

\* C18: in molecule mode the atoms a rank has created, whatever the style,
\* are whole molecules one after the other, each in template order: their
\* number is molcreate times the template's atom count, and the k-th of them
\* (from 0) is template atom k mod natoms of molecule k div natoms.
C18_WholeMoleculesInOrder ==
  \A r \in Ranks :
    pc[r] # "setup" =>
      LET as == Added(r)
          n == onemol.natoms
      IN /\ Len(as) % n = 0
         /\ molcreate(r) * n = Len(as)
         /\ \A k \in 0..(Len(as) - 1) : StampOf(as[k + 1], (k % n) + 1)
         /\ pc[r] \in {"natoms", "tags", "mol_sum", "mol_max", "mol_scan"} =>
              \A q \in 0..(molcreate(r) - 1) : WholeAt(as, q * n)

\* a rank has laid down two molecules on the lattice and another run two at
\* random; shown here for the lattice
C18_TwoLatticeMolecules ==
  \E r \in Ranks :
    /\ cmd.style = "BOX"
    /\ pc[r] = "mol_sum"
    /\ molcreate(r) = 2
    /\ Len(Added(r)) = 4

-----------------------------------------------------------------------------
(* Lattice styles: the reads of the flag array                             *)

Position(r, e) == CHOOSE n \in 1..Len(events[r]) : events[r][n] = e
Happened(r, e) == \E n \in 1..Len(events[r]) : events[r][n] = e

\* C19: the INSERT_SELECTED pass of a rank reads flag[] at the indices
\* 0, 1, ..., T - 1 in this order, each once, T being the total of the rank's
\* COUNT pass and the length of the array; no other pass reads it; the array
\* is created after the COUNT pass and destroyed only after the
\* INSERT_SELECTED pass.
C19_FlagReadsInRange ==
  \A r \in Ranks :
    /\ \A p \in 1..Len(passes[r]) :
         IF passes[r][p].action = "INSERT_SELECTED" THEN
           /\ p = 2 /\ passes[r][1].action = "COUNT"
           /\ Len(flag[r]) = passes[r][1].nlatt
           /\ passes[r][p].reads = [n \in 1..passes[r][1].nlatt |-> n - 1]
           /\ Happened(r, "flag created") /\ Happened(r, "flag destroyed")
           /\ Position(r, "flag created") < Position(r, "inserted")
           /\ Position(r, "inserted") < Position(r, "flag destroyed")
         ELSE passes[r][p].reads = <<>>
    /\ Happened(r, "flag created") =>
         /\ Len(passes[r]) = 2
         /\ passes[r][2].action = "INSERT_SELECTED"
    /\ flag[r] # <<>> => Len(passes[r]) >= 1

\* a rank has read three flags, the middle one unset
C19_ThreeFlagsRead ==
  \E r \in Ranks :
    /\ Len(passes[r]) = 2
    /\ passes[r][2].reads = <<0, 1, 2>>
    /\ flag[r] = <<1, 0, 1>>

-----------------------------------------------------------------------------
(* Random style, single atoms: independence of the decomposition           *)

\* The loop of add_random as one process over the whole box would run it:
\* the tries in order, each from the seed's stream, the overlap test against
\* every atom of the system.  Nothing here reads the number of ranks, the
\* sub-domains or a rank's state: two runs of the same command with the same
\* seed, box, region and atoms that agree with it agree with each other.
Preexisting ==
  UNION {{peratom[r][n].x :
            n \in 1..(IF pc[r] = "setup" THEN Len(peratom[r]) ELSE nlocal_previous[r])} :
         r \in Ranks}
SerialOutcome(x, acc) ==
  IF (region.id # "NULL" /\ ~RegionMatch(x)) \/ (cmd.varflag /\ vartest(x) = 0)
  THEN "filtered"
  ELSE IF /\ cmd.overlapflag
          /\ \E y \in Preexisting \cup {acc[n] : n \in 1..Len(acc)} :
               distsq(x, y) < odist * odist
  THEN "overlap"
  ELSE "accepted"
RECURSIVE SerialFrom(_, _)
SerialFrom(s, k) ==
  IF k = 0 \/ s.i >= cmd.nrandom \/ StreamSlot(s.ndraw) > Len(stream) THEN s
  ELSE LET x == Candidate(RandomBounds, stream[StreamSlot(s.ndraw)])
           out == SerialOutcome(x, s.acc)
           over == out = "accepted" \/ s.ntry + 1 >= cmd.maxtry
           entry == [i |-> s.i, ntry |-> s.ntry + 1, xone |-> x,
                     ndraw |-> s.ndraw + 3, outcome |-> out]
       IN SerialFrom([i |-> IF over THEN s.i + 1 ELSE s.i,
                      ntry |-> IF over THEN 0 ELSE s.ntry + 1,
                      ndraw |-> s.ndraw + 3,
                      acc |-> IF out = "accepted" THEN Append(s.acc, x) ELSE s.acc,
                      log |-> Append(s.log, entry)], k - 1)
SerialRun(k) ==
  SerialFrom([i |-> 0, ntry |-> 0, ndraw |-> WarmUp, acc |-> <<>>, log |-> <<>>], k)
LogOf(r) ==
  [n \in 1..Len(trylog[r]) |->
     [i |-> trylog[r][n].i, ntry |-> trylog[r][n].ntry, xone |-> trylog[r][n].xone,
      ndraw |-> trylog[r][n].ndraw, outcome |-> trylog[r][n].outcome]]
Inserted(r) == pc[r] \in {"natoms", "tags", "done"}
CreatedAt(x) == SumSeq([r \in 1..comm.nprocs |-> Cardinality(AddedAt(r, x))])
AcceptedAt(acc, x) == Cardinality({n \in 1..Len(acc) : acc[n] = x})

\* C20: in a random run of single atoms every rank, whatever the number of
\* ranks and their sub-domains, draws the candidates of the serial run, gives
\* every try the serial run's outcome, makes no try the serial run does not
\* make, and the ranks together create the serial run's accepted positions,
\* each as often as it was accepted.  (A rank's log is a prefix of the serial
\* log over the part of the stream drawn so far, and all of it once the rank
\* has left add_random.)
C20_SameAsSerialRun ==
  (cmd.style = "RANDOM" /\ cmd.mode = "ATOM") =>
    \A serial \in {SerialRun(cmd.nrandom * cmd.maxtry)} :
      /\ \A r \in Ranks :
           /\ Len(trylog[r]) <= Len(serial.log)
           /\ LogOf(r) = SubSeq(serial.log, 1, Len(trylog[r]))
           /\ Inserted(r) => Len(trylog[r]) = Len(serial.log)
      /\ (\A r \in Ranks : Inserted(r)) =>
           /\ AddedTotal = Len(serial.acc)
           /\ \A x \in AddedPositions \cup {serial.acc[n] : n \in 1..Len(serial.acc)} :
                CreatedAt(x) = AcceptedAt(serial.acc, x)

\* two ranks: a try was refused for an atom that the other rank holds, and
\* each rank has created an atom
C20_RefusedAcrossRanks ==
  /\ cmd.style = "RANDOM" /\ cmd.mode = "ATOM"
  /\ comm.nprocs = 2
  /\ Completed
  /\ \A r \in Ranks : Len(Added(r)) >= 1
  /\ \E n \in 1..Len(trylog[1]) :
       /\ trylog[1][n].outcome = "overlap"
       /\ LocalReject(1, trylog[1][n].xone) = 0

====
